---- MODULE Spec2Model ----
(***************************************************************************)
(* StreamDataManager (src/streaming/stream_manager.py) with the session    *)
(* gate it uses (MarketHours, src/utils/market_hours.py).                  *)
(*                                                                         *)
(* The manager is one object shared by a writer thread (preload, live      *)
(* append, clear) and reader threads (get_dataframe, get_buffer_status).   *)
(* Every method body runs under the one threading.Lock of the object; the  *)
(* model keeps the statements of a body as separate steps taken while the  *)
(* lock is held.                                                           *)
(*                                                                         *)
(* Further parts: the status calls of MarketHours (session of a moment,    *)
(* next open, next close) on their own, and the two feed clients           *)
(* (src/streaming/websocket_client.py, websocket_client_direct.py) whose   *)
(* stream thread hands every received bar to the manager.                  *)
(***************************************************************************)
EXTENDS Integers, Sequences, FiniteSets, TLC

(***************************************************************************)
(* Values.  An epoch-millisecond number does not fit the checker's         *)
(* integers, so every instant is kept as (day, ms): whole days since       *)
(* 1970-01-01 and the millisecond of that day.  One record shape carries   *)
(* every kind of timestamp value a point can hold:                         *)
(*   k = "absent"  the dictionary has no such key                          *)
(*   k = "none"    the key is there with value None                        *)
(*   k = "int"     an epoch-millisecond number, day*MS_PER_DAY + ms        *)
(*   k = "aware"   a zone-aware datetime: civil day and ms of day in the   *)
(*                 zone whose UTC offset is off hours                      *)
(*   k = "naive"   a datetime without tzinfo: civil day and ms of day      *)
(*   k = "str"     a non-empty string                                      *)
(***************************************************************************)
MS_PER_HOUR == 3600000

MS_PER_DAY == 86400000

Absent == [k |-> "absent", day |-> 0, ms |-> 0, off |-> 0]

None == [k |-> "none", day |-> 0, ms |-> 0, off |-> 0]

EpochMs(d, m) == [k |-> "int", day |-> d, ms |-> m, off |-> 0]

Aware(d, m, o) == [k |-> "aware", day |-> d, ms |-> m, off |-> o]

Naive(d, m) == [k |-> "naive", day |-> d, ms |-> m, off |-> 0]

\* A timestamp decoded from the wire as text: truthy, and no number.
Text == [k |-> "str", day |-> 0, ms |-> 0, off |-> 0]

\* Python truthiness of a dictionary value: None and the number 0 are falsy.
Truthy(v) ==
    /\ v.k # "absent"
    /\ v.k # "none"
    /\ ~(v.k = "int" /\ v.day = 0 /\ v.ms = 0)

\* F(v), with v computed once however often F refers to it.
Bind(v, F(_)) == CHOOSE r \in { F(x) : x \in {v} } : TRUE

(***************************************************************************)
(* Civil calendar (the proleptic Gregorian calendar of datetime).          *)
(***************************************************************************)
DaysFromCivil(y, m, d) ==
    LET yy  == IF m <= 2 THEN y - 1 ELSE y
        era == yy \div 400
        yoe == yy - era * 400
        mp  == IF m > 2 THEN m - 3 ELSE m + 9
        doy == (153 * mp + 2) \div 5 + d - 1
        doe == yoe * 365 + yoe \div 4 - yoe \div 100 + doy
    IN  era * 146097 + doe - 719468

CivilFromDays(z) ==
    LET zz  == z + 719468
        era == zz \div 146097
        doe == zz - era * 146097
        yoe == (doe - doe \div 1460 + doe \div 36524 - doe \div 146096) \div 365
        doy == doe - (365 * yoe + yoe \div 4 - yoe \div 100)
        mp  == (5 * doy + 2) \div 153
        d   == doy - (153 * mp + 2) \div 5 + 1
        m   == IF mp < 10 THEN mp + 3 ELSE mp - 9
        y   == yoe + era * 400 + (IF m <= 2 THEN 1 ELSE 0)
    IN  <<y, m, d>>

\* datetime.weekday(): Monday is 0, Sunday is 6 (1970-01-01 was a Thursday).
Weekday(day) == (day + 3) % 7

\* time(h, m) as the millisecond of the day.
TimeOfDay(h, m) == h * MS_PER_HOUR + m * 60000

(***************************************************************************)
(* The zone US/Eastern: UTC-5, and UTC-4 from the second Sunday of March   *)
(* 07:00 UTC to the first Sunday of November 06:00 UTC (the rule in force  *)
(* for the calendar year the holiday list covers; an instant of December   *)
(* or January is standard time under every rule the zone has had).         *)
(***************************************************************************)
\* The n-th Sunday (n >= 1) of month m of year y, as a day number.
NthSunday(y, m, n) ==
    LET first == DaysFromCivil(y, m, 1)
        toSun == (6 - Weekday(first)) % 7
    IN  first + toSun + 7 * (n - 1)

\* (day, ms) pairs compare as instants.
Before(d1, m1, d2, m2) == d1 < d2 \/ (d1 = d2 /\ m1 < m2)

EasternOffset(utcDay, utcMs) ==
    LET InYear(y) ==
            LET start == NthSunday(y, 3, 2)
                end   == NthSunday(y, 11, 1)
            IN  IF /\ ~Before(utcDay, utcMs, start, 7 * MS_PER_HOUR)
                   /\ Before(utcDay, utcMs, end, 6 * MS_PER_HOUR)
                THEN -4 ELSE -5
    IN  Bind(CivilFromDays(utcDay)[1], InYear)

\* Shift a civil (day, ms) by h hours, carrying into the day.
Shift(d, m, h) ==
    LET t == m + h * MS_PER_HOUR
    IN  IF t < 0 THEN <<d - 1, t + MS_PER_DAY>>
        ELSE IF t >= MS_PER_DAY THEN <<d + 1, t - MS_PER_DAY>>
        ELSE <<d, t>>

\* The UTC civil fields of a zone-aware datetime.
ToUtc(dt) == Shift(dt.day, dt.ms, 0 - dt.off)

\* dt.astimezone(EASTERN) of a zone-aware datetime.
AsEastern(dt) ==
    LET Local(u, o) == Bind(Shift(u[1], u[2], o), LAMBDA l : Aware(l[1], l[2], o))
        InZone(u)   == Bind(EasternOffset(u[1], u[2]), LAMBDA o : Local(u, o))
    IN  Bind(ToUtc(dt), InZone)

\* datetime.fromtimestamp(timestamp_ms / 1000, tz=pytz.UTC)
FromTimestampUtc(v) == Aware(v.day, v.ms, 0)

\* EASTERN.localize(dt) of a naive datetime (is_dst=False): daylight time
\* from 03:00 of the second Sunday of March up to 01:00 of the first Sunday
\* of November, as the wall clock shows them.
EasternLocalize(dt) ==
    LET InYear(y) ==
            LET start == NthSunday(y, 3, 2)
                end   == NthSunday(y, 11, 1)
            IN  Aware(dt.day, dt.ms,
                      IF /\ ~Before(dt.day, dt.ms, start, 3 * MS_PER_HOUR)
                         /\ Before(dt.day, dt.ms, end, 1 * MS_PER_HOUR)
                      THEN -4 ELSE -5)
    IN  Bind(CivilFromDays(dt.day)[1], InYear)

\* UTC.localize(dt) of a naive datetime.
LocalizeUtc(dt) == Aware(dt.day, dt.ms, 0)

utc_to_eastern(dt) ==
    IF dt.k = "naive" THEN AsEastern(LocalizeUtc(dt)) ELSE AsEastern(dt)

(***************************************************************************)
(* MarketHours: session classification.                                    *)
(***************************************************************************)
MARKET_OPEN == TimeOfDay(9, 30)

MARKET_CLOSE == TimeOfDay(16, 0)

PRE_MARKET_START == TimeOfDay(4, 0)

AFTER_HOURS_END == TimeOfDay(20, 0)

MARKET_HOLIDAYS_2026 ==
    { DaysFromCivil(2026, 1, 1),  DaysFromCivil(2026, 1, 19),
      DaysFromCivil(2026, 2, 16), DaysFromCivil(2026, 4, 3),
      DaysFromCivil(2026, 5, 25), DaysFromCivil(2026, 7, 3),
      DaysFromCivil(2026, 9, 7),  DaysFromCivil(2026, 11, 26),
      DaysFromCivil(2026, 12, 25) }

\* Variant: the weekday of the UTC date of the instant.
is_weekend_utc(dt) == Weekday(ToUtc(dt)[1]) >= 5

is_weekend(dt) == Weekday(dt.day) >= 5

\* Variant: a calendar with a closure of two weeks in June.
is_market_holiday_long_closure(dt) ==
    dt.day \in MARKET_HOLIDAYS_2026
                \cup (DaysFromCivil(2026, 6, 1) .. DaysFromCivil(2026, 6, 14))

is_market_holiday(dt) == dt.day \in MARKET_HOLIDAYS_2026

is_trading_day(dt) == ~is_weekend(dt) /\ ~is_market_holiday(dt)

\* Variant: every session takes its closing boundary with it.
get_market_session_closed_intervals(dt0) ==
    LET Session(dt) ==
            LET current_time == dt.ms
            IN  IF ~is_trading_day(dt) THEN "closed"
                ELSE IF PRE_MARKET_START <= current_time /\ current_time <= MARKET_OPEN
                     THEN "pre_market"
                ELSE IF MARKET_OPEN <= current_time /\ current_time <= MARKET_CLOSE
                     THEN "regular"
                ELSE IF MARKET_CLOSE <= current_time /\ current_time <= AFTER_HOURS_END
                     THEN "after_hours"
                ELSE "closed"
    IN  Bind(IF dt0.k = "naive" THEN AsEastern(LocalizeUtc(dt0))
             ELSE AsEastern(dt0), Session)

get_market_session(dt0) ==
    LET Session(dt) ==
            LET current_time == dt.ms
            IN  IF ~is_trading_day(dt) THEN "closed"
                ELSE IF PRE_MARKET_START <= current_time /\ current_time < MARKET_OPEN
                     THEN "pre_market"
                ELSE IF MARKET_OPEN <= current_time /\ current_time < MARKET_CLOSE
                     THEN "regular"
                ELSE IF MARKET_CLOSE <= current_time /\ current_time < AFTER_HOURS_END
                     THEN "after_hours"
                ELSE "closed"
    IN  Bind(IF dt0.k = "naive" THEN AsEastern(LocalizeUtc(dt0))
             ELSE AsEastern(dt0), Session)

is_market_open(dt) == get_market_session(dt) = "regular"


(***************************************************************************)
(* Bounds of the model and the inputs the environment draws from.          *)
(***************************************************************************)
\* StreamDataManager(max_points=...): the capacity of every window.
max_points == 2

\* The live counters are capped: no Append is issued once total_messages
\* has reached MaxMessages.
MaxMessages == 2

\* No Preload is issued once preloaded_tickers holds MaxPreloads entries.
MaxPreloads == 2

Symbols == {"AAPL", "MSFT"}

\* The tickers selected in the dashboard for the session with a reader.
Selected == {"AAPL"}

Writer == "writer"

Readers == {"ui"}

NoThread == "free"

\* Instants of the feed, as UTC civil fields.
UtcInstant(y, m, d, hh, mm) == <<DaysFromCivil(y, m, d), TimeOfDay(hh, mm)>>

\* Friday 2026-01-30 10:00 ET (regular session) and one minute later.
T_REG1 == UtcInstant(2026, 1, 30, 15, 0)

T_REG2 == UtcInstant(2026, 1, 30, 15, 1)

\* Friday 2026-01-30 22:00 ET: Saturday in UTC, closed.
T_LATE == UtcInstant(2026, 1, 31, 3, 0)

\* Friday 2026-01-30 17:00 ET (after hours) and 08:00 ET (pre-market).
T_AFTER == UtcInstant(2026, 1, 30, 22, 0)

T_PRE == UtcInstant(2026, 1, 30, 13, 0)

\* Sunday 2026-02-01 12:00 ET and the holiday Friday 2026-07-03 11:00 EDT.
T_WEEKEND == UtcInstant(2026, 2, 1, 17, 0)

T_HOLIDAY == UtcInstant(2026, 7, 3, 15, 0)

\* The timestamp values a decoded feed message can carry ('s' of the
\* message, None when the field is missing, or no key at all).
FeedTimestamps ==
    { EpochMs(T_REG2[1], T_REG2[2]),
      EpochMs(T_LATE[1], T_LATE[2]),
      EpochMs(T_AFTER[1], T_AFTER[2]),
      EpochMs(T_PRE[1], T_PRE[2]),
      EpochMs(T_WEEKEND[1], T_WEEKEND[2]),
      EpochMs(T_HOLIDAY[1], T_HOLIDAY[2]),
      EpochMs(0, 0),
      None,
      Absent }

\* The feed of the session with a reader: a tick of the regular session, a
\* tick after hours, and a tick whose start timestamp is 0.
SessionTimestamps ==
    { EpochMs(T_REG2[1], T_REG2[2]),
      EpochMs(T_AFTER[1], T_AFTER[2]),
      EpochMs(0, 0) }

\* The dictionary a feed client hands to add_data_point.
FeedData(ticker, ts) ==
    [symbol |-> ticker, timestamp |-> ts, timestamp_et |-> Absent,
     is_preloaded |-> "absent"]

\* A historical bar: a row of the DataFrame with a zone-aware timestamp.
Bar(t) == [timestamp |-> AsEastern(Aware(t[1], t[2], 0))]

\* A DataFrame of n bars; the bars need not lie in the regular session.
FrameOfLen(n) == [i \in 1..n |-> IF i % 2 = 1 THEN Bar(T_REG1) ELSE Bar(T_LATE)]

\* The DataFrames handed to preload_historical_data: empty, one bar, and
\* as many bars as a window holds.
Frames == { FrameOfLen(0), FrameOfLen(1), FrameOfLen(max_points) }

\* The last n elements of a sequence.
LastN(q, n) == IF Len(q) <= n THEN q ELSE SubSeq(q, Len(q) - n + 1, Len(q))

(***************************************************************************)
(* State of one StreamDataManager and of the threads that call it.         *)
(***************************************************************************)
VARIABLES
    data_buffers,         \* dict: ticker -> deque(maxlen=max_points)
    messages_per_ticker,  \* dict: ticker -> int
    total_messages,       \* int
    preloaded_tickers,    \* list of tickers
    lock,                 \* holder of self.lock, or NoThread
    w,                    \* the writer thread: position and locals
    rd,                   \* the reader threads: position and locals
    result,               \* what each reader's last call returned
    committed,            \* history: data_buffers as the last whole
                          \* mutation left it
    filled,               \* history, per ticker: the number of live points
                          \* stored since a preload filled the empty window
                          \* to capacity; -1 outside such a run
    market,               \* the thread that calls MarketHours: position,
                          \* locals and the value returned
    client                \* the feed client: its flags, its stream thread
                          \* and the thread that calls stop()

vars == <<data_buffers, messages_per_ticker, total_messages,
          preloaded_tickers, lock, w, rd, result, committed, filled,
          market, client>>

EmptyDict == [x \in {} |-> 0]

\* d[k] = v for a dictionary kept as a function on its keys.
DictSet(d, k, v) == [x \in DOMAIN d \cup {k} |-> IF x = k THEN v ELSE d[x]]

NoData == [symbol |-> "", timestamp |-> Absent, timestamp_et |-> Absent,
           is_preloaded |-> "absent"]

\* What the writer remembers of the state its call started in.
NoBefore == [window |-> << >>, count |-> 0, total |-> 0]

WriterIdle == [pc |-> "idle", ticker |-> "", rows |-> << >>, df |-> << >>,
               data |-> NoData, before |-> NoBefore]

ReaderIdle == [pc |-> "idle", ticker |-> "", data_list |-> << >>]

NoStatus == [size |-> 0, max |-> 0, percentage |-> 0, is_full |-> FALSE,
             preloaded |-> FALSE, has_preloaded_count |-> FALSE,
             preloaded_count |-> 0, live_count |-> 0]

\* What get_latest_point returns for no point: None.
NoPoint == [symbol |-> "None", timestamp |-> None, timestamp_et |-> None,
            is_preloaded |-> "absent"]

\* The dictionary of get_statistics for a manager that holds nothing.
NoStats == [total_messages |-> 0, active_tickers |-> 0,
            messages_per_ticker |-> EmptyDict, buffer_sizes |-> EmptyDict,
            preloaded_tickers |-> << >>]

\* A returned value, with the history of the instant it was computed at:
\* for a frame, seen is the committed window of the ticker; for a status,
\* seen_size is the length of that window and k the ticker's entry of filled.
NoResult == [op |-> "none", ticker |-> "", rows |-> << >>, status |-> NoStatus,
             point |-> NoPoint, size |-> 0, full |-> FALSE, stats |-> NoStats,
             seen |-> << >>, seen_size |-> 0, k |-> -1]

\* The dictionary of get_market_status, before a call has filled it; the
\* keys 'next_close' and 'next_open' are there only when has_... is TRUE.
NoMarketStatus ==
    [is_open |-> FALSE, session |-> "none", current_time_et |-> None,
     has_next_close |-> FALSE, next_close |-> None,
     has_next_open |-> FALSE, next_open |-> None]

\* The caller of MarketHours between two calls.  op names the call, dt its
\* argument; session, value and status are what the last call returned.
\* df is the DataFrame argument of a filter call and out what it returned.
MarketIdle ==
    [pc |-> "idle", op |-> "none", dt |-> None, session |-> "none",
     current |-> None, i |-> 0, value |-> None, status |-> NoMarketStatus,
     df |-> << >>, out |-> << >>]

\* No feed client has been constructed.  thread is the position of the
\* thread self.thread refers to, orphans the number of earlier stream threads
\* that still run, subscriptions what the object self.client refers to is
\* subscribed to (the channels sent, for the direct client), log what the
\* stream thread has received, sent and called, last the outcome of the last
\* call of start() or stop(), cause why the stream thread has ended.
NoClient ==
    [kind |-> "none", is_running |-> FALSE, connected |-> FALSE,
     thread |-> "none", messages |-> << >>, received |-> 0, stop |-> "idle",
     aggregation |-> "none", has_client |-> FALSE,
     subscribed_tickers |-> << >>, subscriptions |-> {},
     starts |-> 0, orphans |-> 0, entered |-> FALSE, log |-> << >>,
     cause |-> "none", last |-> "none"]

Init ==
    /\ data_buffers = EmptyDict
    /\ messages_per_ticker = EmptyDict
    /\ total_messages = 0
    /\ preloaded_tickers = << >>
    /\ lock = NoThread
    /\ w = WriterIdle
    /\ rd = [r \in Readers |-> ReaderIdle]
    /\ result = [r \in Readers |-> NoResult]
    /\ committed = EmptyDict
    /\ filled = [t \in Symbols |-> -1]
    /\ market = MarketIdle
    /\ client = NoClient

(***************************************************************************)
(* self.lock = threading.Lock(); every method body is `with self.lock:`.   *)
(***************************************************************************)
\* Variant: a lock that never blocks (each caller locking a lock of its own).
CanAcquireAlways(l) == TRUE

CanAcquire(l) == l = NoThread

\* Variant: a plain list, no maxlen.
DequeAppendNoLimit(buf, p) == Append(buf, p)

\* Variant: a full window drops its newest point instead of its oldest.
DequeAppendDropNewest(buf, p) ==
    IF Len(buf) < max_points THEN Append(buf, p)
    ELSE Append(SubSeq(buf, 1, Len(buf) - 1), p)

\* deque(maxlen=max_points).append(p): a full deque drops its left end.
DequeAppend(buf, p) ==
    IF Len(buf) < max_points THEN Append(buf, p) ELSE Append(Tail(buf), p)

\* `if ticker not in self.data_buffers:` of preload and add_data_point.
EnsureBuffer(bufs, ticker) ==
    IF ticker \in DOMAIN bufs THEN bufs ELSE DictSet(bufs, ticker, << >>)

EnsureCounter(bufs, counts, ticker) ==
    IF ticker \in DOMAIN bufs THEN counts ELSE DictSet(counts, ticker, 0)

\* The window of a ticker, empty for a ticker without one.
WindowOf(bufs, ticker) == IF ticker \in DOMAIN bufs THEN bufs[ticker] ELSE << >>

\* The live counter of a ticker, 0 for a ticker without one.
CountOf(counts, ticker) == IF ticker \in DOMAIN counts THEN counts[ticker] ELSE 0

\* History: the state a writer call starts in, as far as ticker goes.
BeforeCall(ticker) ==
    [window |-> WindowOf(data_buffers, ticker),
     count |-> CountOf(messages_per_ticker, ticker),
     total |-> total_messages]


(***************************************************************************)
(* preload_historical_data(ticker, df)                                     *)
(***************************************************************************)
\* Variant: the row's dictionary without the provenance mark.
PreloadPointUntagged(ticker, row) ==
    [symbol |-> ticker, timestamp |-> row.timestamp,
     timestamp_et |-> row.timestamp, is_preloaded |-> "absent"]

\* The dictionary built from one row of the DataFrame.
PreloadPoint(ticker, row) ==
    [symbol |-> ticker, timestamp |-> row.timestamp,
     timestamp_et |-> row.timestamp, is_preloaded |-> "True"]

\* `with self.lock:` and the creation of the window.
PreloadAcquire(ticker, df) ==
    /\ w.pc = "idle"
    /\ Len(preloaded_tickers) < MaxPreloads
    /\ CanAcquire(lock)
    /\ lock' = Writer
    /\ data_buffers' = EnsureBuffer(data_buffers, ticker)
    /\ messages_per_ticker' = EnsureCounter(data_buffers, messages_per_ticker, ticker)
    /\ w' = [pc |-> "preload_rows", ticker |-> ticker, rows |-> df, df |-> df,
             data |-> NoData, before |-> BeforeCall(ticker)]
    /\ UNCHANGED <<total_messages, preloaded_tickers, rd, result, committed, filled>>
    /\ UNCHANGED <<market, client>>

\* Variant: the loop applies the session gate and skips a bar outside the
\* regular session.
PreloadRowGated ==
    /\ w.pc = "preload_rows"
    /\ w.rows # << >>
    /\ data_buffers' =
           IF is_market_open(Head(w.rows).timestamp)
           THEN [data_buffers EXCEPT
                    ![w.ticker] = DequeAppend(@, PreloadPoint(w.ticker, Head(w.rows)))]
           ELSE data_buffers
    /\ w' = [w EXCEPT !.rows = Tail(@), !.data = PreloadPoint(w.ticker, Head(w.rows))]
    /\ UNCHANGED <<messages_per_ticker, total_messages, preloaded_tickers,
                   lock, rd, result, committed, filled>>
    /\ UNCHANGED <<market, client>>

\* One turn of `for _, row in df.iterrows():`.
PreloadRow ==
    /\ w.pc = "preload_rows"
    /\ w.rows # << >>
    /\ data_buffers' = [data_buffers EXCEPT
           ![w.ticker] = DequeAppend(@, PreloadPoint(w.ticker, Head(w.rows)))]
    /\ w' = [w EXCEPT !.rows = Tail(@), !.data = PreloadPoint(w.ticker, Head(w.rows))]
    /\ UNCHANGED <<messages_per_ticker, total_messages, preloaded_tickers,
                   lock, rd, result, committed, filled>>
    /\ UNCHANGED <<market, client>>

\* After the loop: record the ticker, leave the `with` block.
PreloadEnd ==
    /\ w.pc = "preload_rows"
    /\ w.rows = << >>
    /\ preloaded_tickers' = Append(preloaded_tickers, w.ticker)
    /\ lock' = IF lock = Writer THEN NoThread ELSE lock
    /\ w' = [w EXCEPT !.pc = "preload_done"]
    /\ committed' = data_buffers
    /\ filled' = [filled EXCEPT ![w.ticker] =
           IF w.before.window = << >> /\ Len(data_buffers[w.ticker]) = max_points
           THEN 0 ELSE -1]
    /\ UNCHANGED <<data_buffers, messages_per_ticker, total_messages, rd, result>>
    /\ UNCHANGED <<market, client>>

(***************************************************************************)
(* add_data_point(ticker, data)                                            *)
(***************************************************************************)
\* The epoch-millisecond numbers the feeds of the model carry.
FeedInstants == { ts \in FeedTimestamps : ts.k = "int" }

\* MarketHours.utc_to_eastern(datetime.fromtimestamp(ts / 1000, tz=pytz.UTC))
\* for each of them, and MarketHours.is_market_open of each result: the two
\* functions as tables, computed once.
EasternOf == [ts \in FeedInstants |-> utc_to_eastern(FromTimestampUtc(ts))]

MarketOpenAt ==
    [dt \in { EasternOf[ts] : ts \in FeedInstants } |-> is_market_open(dt)]

\* Lines 96-101: the epoch-millisecond timestamp becomes data['timestamp_et'].
ResolveTimestamp(data) ==
    IF data.timestamp.k # "absent" /\ Truthy(data.timestamp)
    THEN [data EXCEPT !.timestamp_et = EasternOf[data.timestamp]]
    ELSE data

\* Line 99: `timestamp_ms / 1000` raises TypeError for a truthy value that
\* is no number.
ResolveRaises(data) == Truthy(data.timestamp) /\ data.timestamp.k = "str"

\* Lines 103-106: TRUE when the point is dropped.
GateRejects(data) ==
    /\ data.timestamp_et.k # "absent"
    /\ ~MarketOpenAt[data.timestamp_et]

\* Variant: the provenance mark is not written.
TagLiveMissing(data) == data

\* Line 109.
TagLive(data) == [data EXCEPT !.is_preloaded = "False"]

\* `with self.lock:` and the creation of the window (lines 90-94).
AddAcquire(ticker, data) ==
    /\ w.pc = "idle"
    /\ total_messages < MaxMessages
    /\ CanAcquire(lock)
    /\ lock' = Writer
    /\ data_buffers' = EnsureBuffer(data_buffers, ticker)
    /\ messages_per_ticker' = EnsureCounter(data_buffers, messages_per_ticker, ticker)
    /\ w' = [pc |-> "add_gate", ticker |-> ticker, rows |-> << >>, df |-> << >>,
             data |-> data, before |-> BeforeCall(ticker)]
    /\ UNCHANGED <<total_messages, preloaded_tickers, rd, result, committed, filled>>
    /\ UNCHANGED <<market, client>>

\* The state add_data_point(ticker, data) leaves when it runs alone.
add_data_point(bufs, counts, total, ticker, data) ==
    LET b == EnsureBuffer(bufs, ticker)
        c == EnsureCounter(bufs, counts, ticker)
        d == ResolveTimestamp(data)
    IN  IF GateRejects(d)
        THEN [data_buffers |-> b, messages_per_ticker |-> c, total_messages |-> total]
        ELSE [data_buffers |-> [b EXCEPT ![ticker] = DequeAppend(@, TagLive(d))],
              messages_per_ticker |-> [c EXCEPT ![ticker] = @ + 1],
              total_messages |-> total + 1]

\* Lines 96-106: resolve the timestamp, then the early return of the gate.
\* An exception of line 99 leaves the `with` block, which releases the lock.
AddGate ==
    /\ w.pc = "add_gate"
    /\ IF ResolveRaises(w.data)
       THEN /\ w' = [w EXCEPT !.pc = "add_raised"]
            /\ lock' = IF lock = Writer THEN NoThread ELSE lock
            /\ committed' = data_buffers
       ELSE LET data == ResolveTimestamp(w.data)
            IN  IF GateRejects(data)
                THEN /\ w' = [w EXCEPT !.pc = "add_rejected", !.data = data]
                     /\ lock' = IF lock = Writer THEN NoThread ELSE lock
                     /\ committed' = data_buffers
                ELSE /\ w' = [w EXCEPT !.pc = "add_store", !.data = data]
                     /\ UNCHANGED <<lock, committed>>
    /\ UNCHANGED <<data_buffers, messages_per_ticker, total_messages,
                   preloaded_tickers, rd, result, filled>>
    /\ UNCHANGED <<market, client>>

\* Lines 108-113: tag, append, count the ticker's message.  The lookup
\* self.data_buffers[ticker] of line 112 raises KeyError for a ticker whose
\* window is gone, after the point was tagged; the exception leaves the
\* `with` block.
AddStore ==
    /\ w.pc = "add_store"
    /\ IF w.ticker \in DOMAIN data_buffers
       THEN /\ data_buffers' = [data_buffers EXCEPT
                   ![w.ticker] = DequeAppend(@, TagLive(w.data))]
            /\ messages_per_ticker' =
                   [messages_per_ticker EXCEPT ![w.ticker] = @ + 1]
            /\ w' = [w EXCEPT !.pc = "add_total", !.data = TagLive(w.data)]
            /\ UNCHANGED <<lock, committed>>
       ELSE /\ w' = [w EXCEPT !.pc = "add_raised", !.data = TagLive(w.data)]
            /\ lock' = IF lock = Writer THEN NoThread ELSE lock
            /\ committed' = data_buffers
            /\ UNCHANGED <<data_buffers, messages_per_ticker>>
    /\ UNCHANGED <<total_messages, preloaded_tickers, rd, result, filled>>
    /\ UNCHANGED <<market, client>>

\* Line 114: count the message in the total, leave the `with` block.
AddTotal ==
    /\ w.pc = "add_total"
    /\ total_messages' = total_messages + 1
    /\ lock' = IF lock = Writer THEN NoThread ELSE lock
    /\ w' = [w EXCEPT !.pc = "add_stored"]
    /\ committed' = data_buffers
    /\ filled' = [filled EXCEPT ![w.ticker] =
           IF @ >= 0 /\ @ < max_points THEN @ + 1 ELSE -1]
    /\ UNCHANGED <<data_buffers, messages_per_ticker, preloaded_tickers,
                   rd, result>>
    /\ UNCHANGED <<market, client>>

\* The call has returned; the writer is free to issue the next one.
WriterReturn ==
    /\ w.pc \in {"preload_done", "add_rejected", "add_stored", "add_raised",
                "cleared"}
    /\ w' = WriterIdle
    /\ UNCHANGED <<data_buffers, messages_per_ticker, total_messages,
                   preloaded_tickers, lock, rd, result, committed, filled>>
    /\ UNCHANGED <<market, client>>

(***************************************************************************)
(* clear_ticker(ticker), clear_all()                                       *)
(***************************************************************************)
\* list.remove(x): drops the first occurrence of x.
RECURSIVE ListRemove(_, _)
ListRemove(l, x) ==
    IF l = << >> THEN << >>
    ELSE IF Head(l) = x THEN Tail(l)
    ELSE <<Head(l)>> \o ListRemove(Tail(l), x)

InList(l, x) == \E i \in 1..Len(l) : l[i] = x

\* Variant: clearing a ticker empties every window.
clear_ticker_every_window(ticker) ==
    /\ w.pc = "idle"
    /\ CanAcquire(lock)
    /\ data_buffers' = [t \in DOMAIN data_buffers |-> << >>]
    /\ preloaded_tickers' = IF InList(preloaded_tickers, ticker)
                            THEN ListRemove(preloaded_tickers, ticker)
                            ELSE preloaded_tickers
    /\ w' = [WriterIdle EXCEPT !.pc = "cleared", !.ticker = ticker,
                               !.before = BeforeCall(ticker)]
    /\ committed' = data_buffers'
    /\ filled' = [filled EXCEPT ![ticker] = -1]
    /\ UNCHANGED <<messages_per_ticker, total_messages, lock, rd, result>>
    /\ UNCHANGED <<market, client>>

\* Variant: clearing a ticker also takes its messages out of the counters.
clear_ticker_resetting(ticker) ==
    /\ w.pc = "idle"
    /\ CanAcquire(lock)
    /\ data_buffers' = IF ticker \in DOMAIN data_buffers
                       THEN [data_buffers EXCEPT ![ticker] = << >>]
                       ELSE data_buffers
    /\ preloaded_tickers' = IF InList(preloaded_tickers, ticker)
                            THEN ListRemove(preloaded_tickers, ticker)
                            ELSE preloaded_tickers
    /\ messages_per_ticker' = IF ticker \in DOMAIN messages_per_ticker
                              THEN [messages_per_ticker EXCEPT ![ticker] = 0]
                              ELSE messages_per_ticker
    /\ total_messages' = total_messages - CountOf(messages_per_ticker, ticker)
    /\ w' = [WriterIdle EXCEPT !.pc = "cleared", !.ticker = ticker,
                               !.before = BeforeCall(ticker)]
    /\ committed' = data_buffers'
    /\ filled' = [filled EXCEPT ![ticker] = -1]
    /\ UNCHANGED <<lock, rd, result>>
    /\ UNCHANGED <<market, client>>

clear_ticker(ticker) ==
    /\ w.pc = "idle"
    /\ CanAcquire(lock)
    /\ data_buffers' = IF ticker \in DOMAIN data_buffers
                       THEN [data_buffers EXCEPT ![ticker] = << >>]
                       ELSE data_buffers
    /\ preloaded_tickers' = IF InList(preloaded_tickers, ticker)
                            THEN ListRemove(preloaded_tickers, ticker)
                            ELSE preloaded_tickers
    /\ w' = [WriterIdle EXCEPT !.pc = "cleared", !.ticker = ticker,
                               !.before = BeforeCall(ticker)]
    /\ committed' = data_buffers'
    /\ filled' = [filled EXCEPT ![ticker] = -1]
    /\ UNCHANGED <<messages_per_ticker, total_messages, lock, rd, result>>
    /\ UNCHANGED <<market, client>>

\* Variant: the windows and the preloaded list are dropped, the counters kept.
clear_all_keeping_counters ==
    /\ w.pc = "idle"
    /\ CanAcquire(lock)
    /\ data_buffers' = EmptyDict
    /\ preloaded_tickers' = << >>
    /\ w' = [WriterIdle EXCEPT !.pc = "cleared",
                               !.before = [NoBefore EXCEPT !.total = total_messages]]
    /\ committed' = data_buffers'
    /\ filled' = [t \in Symbols |-> -1]
    /\ UNCHANGED <<messages_per_ticker, total_messages, lock, rd, result>>
    /\ UNCHANGED <<market, client>>

clear_all ==
    /\ w.pc = "idle"
    /\ CanAcquire(lock)
    /\ data_buffers' = EmptyDict
    /\ messages_per_ticker' = EmptyDict
    /\ preloaded_tickers' = << >>
    /\ total_messages' = 0
    /\ w' = [WriterIdle EXCEPT !.pc = "cleared",
                               !.before = [NoBefore EXCEPT !.total = total_messages]]
    /\ committed' = data_buffers'
    /\ filled' = [t \in Symbols |-> -1]
    /\ UNCHANGED <<lock, rd, result>>
    /\ UNCHANGED <<market, client>>


(***************************************************************************)
(* get_dataframe(ticker)                                                   *)
(***************************************************************************)
\* A missing value of a DataFrame column (NaT / NaN).
NaN == [k |-> "nan", day |-> 0, ms |-> 0, off |-> 0]

\* The cell a dictionary value becomes: a missing key and None are missing.
Cell(v) == IF v.k \in {"absent", "none"} THEN NaN ELSE v

\* pd.DataFrame(data_list) followed by df['timestamp'] = df['timestamp_et']
\* when any dictionary has the key 'timestamp_et'.
FrameRows(data_list) ==
    LET has_et == \E i \in 1..Len(data_list) : data_list[i].timestamp_et.k # "absent"
    IN  [i \in 1..Len(data_list) |->
            [symbol |-> data_list[i].symbol,
             timestamp |-> IF has_et THEN Cell(data_list[i].timestamp_et)
                           ELSE Cell(data_list[i].timestamp),
             timestamp_et |-> Cell(data_list[i].timestamp_et),
             is_preloaded |-> data_list[i].is_preloaded]]

\* The frame has a column 'timestamp' when any dictionary has one of the keys.
HasTimestampColumn(data_list) ==
    \E i \in 1..Len(data_list) :
        \/ data_list[i].timestamp_et.k # "absent"
        \/ data_list[i].timestamp.k # "absent"

\* The instant of a cell as a (day, ms) pair in UTC.
CellKey(v) == IF v.k = "aware" THEN ToUtc(v) ELSE <<v.day, v.ms>>

CellLeq(a, b) == ~Before(CellKey(b)[1], CellKey(b)[2], CellKey(a)[1], CellKey(a)[2])

Orderings(n) ==
    { f \in [1..n -> 1..n] : \A i, j \in 1..n : i # j => f[i] # f[j] }

\* Variant: the frame is returned as built, without the sort.
SortValuesKeepOrder(rows) == { rows }

\* df.sort_values('timestamp'): ascending, missing values last in their
\* order of appearance; the order of equal keys is the sort's choice.
SortValues(rows) ==
    { [i \in 1..Len(rows) |-> rows[f[i]]] : f \in
        { g \in Orderings(Len(rows)) :
            \A i, j \in 1..Len(rows) : i < j =>
                LET a == rows[g[i]].timestamp
                    b == rows[g[j]].timestamp
                IN  /\ ~(a.k = "nan" /\ b.k # "nan")
                    /\ (a.k # "nan" /\ b.k # "nan") => CellLeq(a, b)
                    /\ (a.k = "nan" /\ b.k = "nan") => g[i] < g[j] } }

\* Every frame get_dataframe can return for a window.
get_dataframe(bufs, ticker) ==
    IF ticker \notin DOMAIN bufs \/ WindowOf(bufs, ticker) = << >>
    THEN { << >> }
    ELSE IF HasTimestampColumn(bufs[ticker])
         THEN SortValues(FrameRows(bufs[ticker]))
         ELSE { FrameRows(bufs[ticker]) }

\* Variant: the read creates the window of a ticker that has none.
GetDataframeAcquireCreating(r, ticker) ==
    /\ rd[r].pc = "idle"
    /\ CanAcquire(lock)
    /\ lock' = r
    /\ rd' = [rd EXCEPT ![r] = [ReaderIdle EXCEPT !.pc = "dataframe",
                                                  !.ticker = ticker]]
    /\ data_buffers' = EnsureBuffer(data_buffers, ticker)
    /\ messages_per_ticker' = EnsureCounter(data_buffers, messages_per_ticker, ticker)
    /\ UNCHANGED <<total_messages, preloaded_tickers, w, result, committed, filled>>
    /\ UNCHANGED <<market, client>>

GetDataframeAcquire(r, ticker) ==
    /\ rd[r].pc = "idle"
    /\ CanAcquire(lock)
    /\ lock' = r
    /\ rd' = [rd EXCEPT ![r] = [ReaderIdle EXCEPT !.pc = "dataframe",
                                                  !.ticker = ticker]]
    /\ UNCHANGED <<data_buffers, messages_per_ticker, total_messages,
                   preloaded_tickers, w, result, committed, filled>>
    /\ UNCHANGED <<market, client>>

GetDataframeReturn(r) ==
    /\ rd[r].pc = "dataframe"
    /\ \E df \in get_dataframe(data_buffers, rd[r].ticker) :
          result' = [result EXCEPT ![r] =
              [NoResult EXCEPT !.op = "get_dataframe",
                               !.ticker = rd[r].ticker, !.rows = df,
                               !.seen = WindowOf(committed, rd[r].ticker)]]
    /\ lock' = IF lock = r THEN NoThread ELSE lock
    /\ rd' = [rd EXCEPT ![r] = ReaderIdle]
    /\ UNCHANGED <<data_buffers, messages_per_ticker, total_messages,
                   preloaded_tickers, w, committed, filled>>
    /\ UNCHANGED <<market, client>>

(***************************************************************************)
(* get_buffer_status(ticker)                                               *)
(***************************************************************************)
\* sum(1 for d in data_list if d.get('is_preloaded', False))
RECURSIVE CountPreloaded(_)
CountPreloaded(l) ==
    IF l = << >> THEN 0
    ELSE (IF Head(l).is_preloaded = "True" THEN 1 ELSE 0) + CountPreloaded(Tail(l))

\* Lines 169-176: the result for a ticker without a window.
UnknownStatus ==
    [size |-> 0, max |-> max_points, percentage |-> 0, is_full |-> FALSE,
     preloaded |-> FALSE, has_preloaded_count |-> FALSE,
     preloaded_count |-> 0, live_count |-> 0]

\* Lines 184-192: the result built from the copied list and the deque.
KnownStatus(data_list, buffer, ticker, preloaded) ==
    [size |-> Len(buffer), max |-> max_points,
     percentage |-> (Len(buffer) * 100) \div max_points,
     is_full |-> Len(buffer) >= max_points,
     preloaded |-> InList(preloaded, ticker),
     has_preloaded_count |-> TRUE,
     preloaded_count |-> CountPreloaded(data_list),
     live_count |-> Len(data_list) - CountPreloaded(data_list)]

GetBufferStatusAcquire(r, ticker) ==
    /\ rd[r].pc = "idle"
    /\ CanAcquire(lock)
    /\ lock' = r
    /\ rd' = [rd EXCEPT ![r] = [ReaderIdle EXCEPT !.pc = "status_scan",
                                                  !.ticker = ticker]]
    /\ UNCHANGED <<data_buffers, messages_per_ticker, total_messages,
                   preloaded_tickers, w, result, committed, filled>>
    /\ UNCHANGED <<market, client>>

\* Lines 168-179: the early return, or data_list = list(buffer).
GetBufferStatusScan(r) ==
    /\ rd[r].pc = "status_scan"
    /\ IF rd[r].ticker \notin DOMAIN data_buffers
       THEN /\ result' = [result EXCEPT ![r] =
                   [NoResult EXCEPT !.op = "get_buffer_status",
                                    !.ticker = rd[r].ticker,
                                    !.status = UnknownStatus,
                                    !.seen_size = Len(WindowOf(committed, rd[r].ticker)),
                                    !.k = filled[rd[r].ticker]]]
            /\ lock' = IF lock = r THEN NoThread ELSE lock
            /\ rd' = [rd EXCEPT ![r] = ReaderIdle]
       ELSE /\ rd' = [rd EXCEPT ![r].pc = "status_build",
                                ![r].data_list = data_buffers[rd[r].ticker]]
            /\ UNCHANGED <<lock, result>>
    /\ UNCHANGED <<data_buffers, messages_per_ticker, total_messages,
                   preloaded_tickers, w, committed, filled>>
    /\ UNCHANGED <<market, client>>

\* Lines 181-192: count, read len(buffer), return.
GetBufferStatusReturn(r) ==
    /\ rd[r].pc = "status_build"
    /\ result' = [result EXCEPT ![r] =
           [NoResult EXCEPT !.op = "get_buffer_status",
                            !.ticker = rd[r].ticker,
                            !.status = KnownStatus(rd[r].data_list,
                                           WindowOf(data_buffers, rd[r].ticker),
                                           rd[r].ticker, preloaded_tickers),
                            !.seen_size = Len(WindowOf(committed, rd[r].ticker)),
                            !.k = filled[rd[r].ticker]]]
    /\ lock' = IF lock = r THEN NoThread ELSE lock
    /\ rd' = [rd EXCEPT ![r] = ReaderIdle]
    /\ UNCHANGED <<data_buffers, messages_per_ticker, total_messages,
                   preloaded_tickers, w, committed, filled>>
    /\ UNCHANGED <<market, client>>

(***************************************************************************)
(* get_latest_point(ticker)                                                *)
(***************************************************************************)
\* Variant: the left end of the deque, its oldest point.
get_oldest_point(bufs, ticker) ==
    IF ticker \notin DOMAIN bufs \/ bufs[ticker] = << >>
    THEN NoPoint
    ELSE bufs[ticker][1]

get_latest_point(bufs, ticker) ==
    IF ticker \notin DOMAIN bufs \/ bufs[ticker] = << >>
    THEN NoPoint
    ELSE bufs[ticker][Len(bufs[ticker])]

GetLatestPointAcquire(r, ticker) ==
    /\ rd[r].pc = "idle"
    /\ CanAcquire(lock)
    /\ lock' = r
    /\ rd' = [rd EXCEPT ![r] = [ReaderIdle EXCEPT !.pc = "latest",
                                                  !.ticker = ticker]]
    /\ UNCHANGED <<data_buffers, messages_per_ticker, total_messages,
                   preloaded_tickers, w, result, committed, filled>>
    /\ UNCHANGED <<market, client>>

GetLatestPointReturn(r) ==
    /\ rd[r].pc = "latest"
    /\ result' = [result EXCEPT ![r] =
           [NoResult EXCEPT !.op = "get_latest_point",
                            !.ticker = rd[r].ticker,
                            !.point = get_latest_point(data_buffers, rd[r].ticker)]]
    /\ lock' = IF lock = r THEN NoThread ELSE lock
    /\ rd' = [rd EXCEPT ![r] = ReaderIdle]
    /\ UNCHANGED <<data_buffers, messages_per_ticker, total_messages,
                   preloaded_tickers, w, committed, filled>>
    /\ UNCHANGED <<market, client>>

(***************************************************************************)
(* get_buffer_size(ticker), is_buffer_full(ticker)                         *)
(***************************************************************************)
get_buffer_size(bufs, ticker) ==
    IF ticker \notin DOMAIN bufs THEN 0 ELSE Len(bufs[ticker])

\* Variant: the read creates the window of a ticker that has none, as a
\* lookup in a defaultdict would.
GetBufferSizeAcquireCreating(r, ticker) ==
    /\ rd[r].pc = "idle"
    /\ CanAcquire(lock)
    /\ lock' = r
    /\ rd' = [rd EXCEPT ![r] = [ReaderIdle EXCEPT !.pc = "size",
                                                  !.ticker = ticker]]
    /\ data_buffers' = EnsureBuffer(data_buffers, ticker)
    /\ messages_per_ticker' = EnsureCounter(data_buffers, messages_per_ticker, ticker)
    /\ UNCHANGED <<total_messages, preloaded_tickers, w, result, committed, filled>>
    /\ UNCHANGED <<market, client>>

GetBufferSizeAcquire(r, ticker) ==
    /\ rd[r].pc = "idle"
    /\ CanAcquire(lock)
    /\ lock' = r
    /\ rd' = [rd EXCEPT ![r] = [ReaderIdle EXCEPT !.pc = "size",
                                                  !.ticker = ticker]]
    /\ UNCHANGED <<data_buffers, messages_per_ticker, total_messages,
                   preloaded_tickers, w, result, committed, filled>>
    /\ UNCHANGED <<market, client>>

GetBufferSizeReturn(r) ==
    /\ rd[r].pc = "size"
    /\ result' = [result EXCEPT ![r] =
           [NoResult EXCEPT !.op = "get_buffer_size",
                            !.ticker = rd[r].ticker,
                            !.size = get_buffer_size(data_buffers, rd[r].ticker)]]
    /\ lock' = IF lock = r THEN NoThread ELSE lock
    /\ rd' = [rd EXCEPT ![r] = ReaderIdle]
    /\ UNCHANGED <<data_buffers, messages_per_ticker, total_messages,
                   preloaded_tickers, w, committed, filled>>
    /\ UNCHANGED <<market, client>>

\* Variant: is_buffer_full written as the other methods are, with its body
\* under `with self.lock:`.
IsBufferFullCallLocking(r, ticker) ==
    /\ rd[r].pc = "idle"
    /\ CanAcquire(lock)
    /\ lock' = r
    /\ rd' = [rd EXCEPT ![r] = [ReaderIdle EXCEPT !.pc = "full_call",
                                                  !.ticker = ticker]]
    /\ UNCHANGED <<data_buffers, messages_per_ticker, total_messages,
                   preloaded_tickers, w, result, committed, filled>>
    /\ UNCHANGED <<market, client>>

\* is_buffer_full is entered; it takes no lock of its own.
IsBufferFullCall(r, ticker) ==
    /\ rd[r].pc = "idle"
    /\ rd' = [rd EXCEPT ![r] = [ReaderIdle EXCEPT !.pc = "full_call",
                                                  !.ticker = ticker]]
    /\ UNCHANGED <<data_buffers, messages_per_ticker, total_messages,
                   preloaded_tickers, lock, w, result, committed, filled>>
    /\ UNCHANGED <<market, client>>

\* The call self.get_buffer_size(ticker) inside it enters `with self.lock:`.
IsBufferFullAcquire(r) ==
    /\ rd[r].pc = "full_call"
    /\ CanAcquire(lock)
    /\ lock' = r
    /\ rd' = [rd EXCEPT ![r].pc = "full_size"]
    /\ UNCHANGED <<data_buffers, messages_per_ticker, total_messages,
                   preloaded_tickers, w, result, committed, filled>>
    /\ UNCHANGED <<market, client>>

\* get_buffer_size returns, and its value is compared with max_points.
IsBufferFullReturn(r) ==
    /\ rd[r].pc = "full_size"
    /\ result' = [result EXCEPT ![r] =
           [NoResult EXCEPT !.op = "is_buffer_full",
                            !.ticker = rd[r].ticker,
                            !.full = (get_buffer_size(data_buffers, rd[r].ticker)
                                          >= max_points)]]
    /\ lock' = IF lock = r THEN NoThread ELSE lock
    /\ rd' = [rd EXCEPT ![r] = ReaderIdle]
    /\ UNCHANGED <<data_buffers, messages_per_ticker, total_messages,
                   preloaded_tickers, w, committed, filled>>
    /\ UNCHANGED <<market, client>>

(***************************************************************************)
(* get_statistics()                                                        *)
(***************************************************************************)
get_statistics(bufs, counts, total, preloaded) ==
    [total_messages |-> total,
     active_tickers |-> Cardinality(DOMAIN bufs),
     messages_per_ticker |-> counts,
     buffer_sizes |-> [t \in DOMAIN bufs |-> Len(bufs[t])],
     preloaded_tickers |-> preloaded]

GetStatisticsAcquire(r) ==
    /\ rd[r].pc = "idle"
    /\ CanAcquire(lock)
    /\ lock' = r
    /\ rd' = [rd EXCEPT ![r] = [ReaderIdle EXCEPT !.pc = "statistics"]]
    /\ UNCHANGED <<data_buffers, messages_per_ticker, total_messages,
                   preloaded_tickers, w, result, committed, filled>>
    /\ UNCHANGED <<market, client>>

GetStatisticsReturn(r) ==
    /\ rd[r].pc = "statistics"
    /\ result' = [result EXCEPT ![r] =
           [NoResult EXCEPT !.op = "get_statistics",
                            !.stats = get_statistics(data_buffers,
                                          messages_per_ticker, total_messages,
                                          preloaded_tickers)]]
    /\ lock' = IF lock = r THEN NoThread ELSE lock
    /\ rd' = [rd EXCEPT ![r] = ReaderIdle]
    /\ UNCHANGED <<data_buffers, messages_per_ticker, total_messages,
                   preloaded_tickers, w, committed, filled>>
    /\ UNCHANGED <<market, client>>

(***************************************************************************)
(* The threads.                                                            *)
(***************************************************************************)
\* One streaming session of the dashboard with one selected ticker: the
\* feed thread writes, the UI poll reads.
Next ==
    \/ \E t \in Selected, df \in Frames : PreloadAcquire(t, df)
    \/ PreloadRow
    \/ PreloadEnd
    \/ \E t \in Selected, ts \in SessionTimestamps : AddAcquire(t, FeedData(t, ts))
    \/ AddGate
    \/ AddStore
    \/ AddTotal
    \/ WriterReturn
    \/ \E t \in Selected : clear_ticker(t)
    \/ clear_all
    \/ \E r \in Readers, t \in Selected : GetDataframeAcquire(r, t)
    \/ \E r \in Readers : GetDataframeReturn(r)
    \/ \E r \in Readers, t \in Selected : GetBufferStatusAcquire(r, t)
    \/ \E r \in Readers : GetBufferStatusScan(r)
    \/ \E r \in Readers : GetBufferStatusReturn(r)

Spec == Init /\ [][Next]_vars

\* The writer alone, on every symbol.
NextStore ==
    \/ \E t \in Symbols, df \in Frames : PreloadAcquire(t, df)
    \/ PreloadRow
    \/ PreloadEnd
    \/ \E t \in Symbols, ts \in FeedTimestamps : AddAcquire(t, FeedData(t, ts))
    \/ AddGate
    \/ AddStore
    \/ AddTotal
    \/ WriterReturn
    \/ \E t \in Symbols : clear_ticker(t)
    \/ clear_all

SpecStore == Init /\ [][NextStore]_vars

\* The feed of the session in which every reader of the manager is polled.
ReadsTimestamps == { EpochMs(T_REG2[1], T_REG2[2]), EpochMs(T_AFTER[1], T_AFTER[2]) }

\* One selected ticker is written; every reader is called on every symbol,
\* the symbols that were never written included.
NextReads ==
    \/ \E t \in Selected, df \in Frames : PreloadAcquire(t, df)
    \/ PreloadRow
    \/ PreloadEnd
    \/ \E t \in Selected, ts \in ReadsTimestamps : AddAcquire(t, FeedData(t, ts))
    \/ AddGate
    \/ AddStore
    \/ AddTotal
    \/ WriterReturn
    \/ \E t \in Selected : clear_ticker(t)
    \/ clear_all
    \/ \E r \in Readers, t \in Symbols : GetDataframeAcquire(r, t)
    \/ \E r \in Readers : GetDataframeReturn(r)
    \/ \E r \in Readers, t \in Symbols : GetBufferStatusAcquire(r, t)
    \/ \E r \in Readers : GetBufferStatusScan(r)
    \/ \E r \in Readers : GetBufferStatusReturn(r)
    \/ \E r \in Readers, t \in Symbols : GetLatestPointAcquire(r, t)
    \/ \E r \in Readers : GetLatestPointReturn(r)
    \/ \E r \in Readers, t \in Symbols : GetBufferSizeAcquire(r, t)
    \/ \E r \in Readers : GetBufferSizeReturn(r)
    \/ \E r \in Readers, t \in Symbols : IsBufferFullCall(r, t)
    \/ \E r \in Readers : IsBufferFullAcquire(r)
    \/ \E r \in Readers : IsBufferFullReturn(r)
    \/ \E r \in Readers : GetStatisticsAcquire(r)
    \/ \E r \in Readers : GetStatisticsReturn(r)

SpecReads == Init /\ [][NextReads]_vars


(***************************************************************************)
(* Properties.                                                             *)
(***************************************************************************)
Min(a, b) == IF a < b THEN a ELSE b

\* The points a preload stores for the rows of a frame, in row order.
PointsOf(ticker, rows) == [i \in 1..Len(rows) |-> PreloadPoint(ticker, rows[i])]

\* The rows of the writer's frame that its loop has been through.
Consumed == SubSeq(w.df, 1, Len(w.df) - Len(w.rows))

\* rows holds exactly the points of list, each once, in some order.
SameContent(rows, list) ==
    /\ Len(rows) = Len(list)
    /\ \E f \in Orderings(Len(list)) : \A i \in 1..Len(list) : rows[i] = list[f[i]]

\* C1: in every reachable state, also in the middle of a preload, every
\* window holds at most max_points points.
C1_WindowWithinCapacity ==
    \A t \in DOMAIN data_buffers : Len(data_buffers[t]) <= max_points

\* A live point was appended to a full window, which is still full.
C1_Witness ==
    /\ w.pc = "add_stored"
    /\ Len(w.before.window) = max_points
    /\ Len(data_buffers[w.ticker]) = max_points

\* C2: FIFO eviction.  After every row of a preload and after every admitted
\* append, the window is the last max_points points of the window the call
\* started with followed by the points the call has stored, in call order:
\* what is dropped is always the oldest stored point.
C2_FifoEviction ==
    /\ w.pc \in {"preload_rows", "preload_done"} =>
          WindowOf(data_buffers, w.ticker) =
              LastN(w.before.window \o PointsOf(w.ticker, Consumed), max_points)
    /\ w.pc = "add_stored" =>
          WindowOf(data_buffers, w.ticker) =
              LastN(w.before.window \o <<w.data>>, max_points)

\* A preload into a window that already holds preloaded points has pushed
\* the oldest of them out.
C2_Witness ==
    /\ w.pc = "preload_done"
    /\ Len(w.df) >= 1
    /\ Len(w.before.window) + Len(w.df) > max_points
    /\ w.before.window # << >>
    /\ w.before.window[1].is_preloaded = "True"

\* The exchange-local instant of an epoch-millisecond number.
LocalInstant(ts) == utc_to_eastern(FromTimestampUtc(ts))

\* C3 (as claimed): an add_data_point of a point whose epoch-millisecond
\* timestamp resolves to a local instant outside the regular session leaves
\* the window, the ticker's counter and the total counter as they were.
C3_GateDropsNonRegular ==
    ( /\ w.pc \in {"add_rejected", "add_stored"}
      /\ w.data.timestamp.k = "int"
      /\ get_market_session(LocalInstant(w.data.timestamp)) # "regular" )
    => /\ WindowOf(data_buffers, w.ticker) = w.before.window
       /\ CountOf(messages_per_ticker, w.ticker) = w.before.count
       /\ total_messages = w.before.total

\* C4 (as claimed): every live point of every window carries a resolved
\* local timestamp of the regular session.
C4_LivePointsAreRegular ==
    \A t \in DOMAIN data_buffers : \A i \in 1..Len(data_buffers[t]) :
        data_buffers[t][i].is_preloaded = "False" =>
            /\ data_buffers[t][i].timestamp_et.k = "aware"
            /\ is_market_open(data_buffers[t][i].timestamp_et)

\* C5: a preload of n bars, whatever their timestamps, leaves the window
\* with min(size before + n, max_points) points, the last min(n, max_points)
\* of them being the last bars supplied, in order.
C5_PreloadBypassesGate ==
    w.pc = "preload_done" =>
        LET win == data_buffers[w.ticker]
            n   == Len(w.df)
            m   == Min(n, max_points)
        IN  /\ Len(win) = Min(Len(w.before.window) + n, max_points)
            /\ LastN(win, m) = PointsOf(w.ticker, LastN(w.df, m))

\* A preload has stored a bar that lies outside the regular session.
C5_Witness ==
    /\ w.pc = "preload_done"
    /\ \E i \in 1..Len(data_buffers[w.ticker]) :
          /\ data_buffers[w.ticker][i].is_preloaded = "True"
          /\ ~is_market_open(data_buffers[w.ticker][i].timestamp_et)

\* C6: every frame get_dataframe returned holds exactly the points of the
\* window as a whole mutation left it (never the window in the middle of a
\* preload), holds at most max_points rows, and every row is a complete
\* point of the ticker.
C6_SnapshotIsCommittedWindow ==
    \A r \in Readers : result[r].op = "get_dataframe" =>
        /\ SameContent(result[r].rows, FrameRows(result[r].seen))
        /\ Len(result[r].rows) <= max_points
        /\ \A i \in 1..Len(result[r].rows) :
              /\ result[r].rows[i].symbol = result[r].ticker
              /\ result[r].rows[i].is_preloaded \in {"True", "False"}

\* A reader holds a full frame while the writer is in the middle of a
\* preload whose rows are not yet committed.
C6_Witness ==
    /\ \E r \in Readers : /\ result[r].op = "get_dataframe"
                          /\ Len(result[r].rows) = max_points
    /\ w.pc = "preload_rows"
    /\ w.rows # << >>
    /\ data_buffers # committed

\* Every point of the list carries a resolved timestamp.
AllResolved(list) == \A i \in 1..Len(list) : list[i].timestamp_et.k = "aware"

\* C7 (as claimed): the frame lists the points in insertion order, also
\* when a point with a later timestamp was stored before one with an
\* earlier timestamp.
C7_SnapshotInInsertionOrder ==
    \A r \in Readers :
        (result[r].op = "get_dataframe" /\ AllResolved(result[r].seen)) =>
            result[r].rows = FrameRows(result[r].seen)

\* C7 (amended): the frame lists the points of the window by ascending
\* timestamp, the points without a resolved timestamp last.
C7_SnapshotSortedByTimestamp ==
    \A r \in Readers : result[r].op = "get_dataframe" =>
        /\ SameContent(result[r].rows, FrameRows(result[r].seen))
        /\ \A i, j \in 1..Len(result[r].rows) : i < j =>
              LET a == result[r].rows[i].timestamp
                  b == result[r].rows[j].timestamp
              IN  IF b.k = "nan" THEN TRUE
                  ELSE a.k # "nan" /\ ~Before(CellKey(b)[1], CellKey(b)[2],
                                              CellKey(a)[1], CellKey(a)[2])

\* A frame whose order differs from the insertion order of its window.
C7_Witness ==
    \E r \in Readers :
        /\ result[r].op = "get_dataframe"
        /\ Len(result[r].rows) >= 2
        /\ AllResolved(result[r].seen)
        /\ result[r].rows # FrameRows(result[r].seen)

\* The state of the manager that callers can observe.
ManagerState ==
    <<data_buffers, messages_per_ticker, total_messages, preloaded_tickers>>

\* C8: a frame a reader holds is changed by no step of another thread, and
\* no step of a get_dataframe call changes the windows, the counters or the
\* preloaded list.
C8_SnapshotIsCopy ==
    [][ \A r \in Readers :
          /\ rd'[r] = rd[r] => result'[r] = result[r]
          /\ (rd[r].pc = "dataframe" \/ rd'[r].pc = "dataframe")
                => ManagerState' = ManagerState ]_vars

\* A reader holds a non-empty frame of a window that has since been cleared.
C8_Witness ==
    \E r \in Readers :
        /\ result[r].op = "get_dataframe"
        /\ result[r].rows # << >>
        /\ w.pc = "cleared"
        /\ WindowOf(data_buffers, result[r].ticker) = << >>

\* C9: a status computed after a preload filled the empty window to capacity
\* and k live points were stored since (k <= max_points, rejected ticks in
\* between or not) reports size max_points, live_count k and
\* preloaded_count max_points - k.
C9_PreloadThenLiveCounts ==
    \A r \in Readers :
        (result[r].op = "get_buffer_status" /\ result[r].k >= 0) =>
            /\ result[r].status.has_preloaded_count
            /\ result[r].status.size = max_points
            /\ result[r].status.live_count = result[r].k
            /\ result[r].status.preloaded_count = max_points - result[r].k

\* Such a status with a live point counted, and a tick rejected after it
\* that left the run as it was.
C9_Witness ==
    \E r \in Readers :
        /\ result[r].op = "get_buffer_status"
        /\ result[r].k >= 1
        /\ w.pc = "add_rejected"
        /\ filled[w.ticker] = result[r].k

\* C10: a point stored by a preload is marked is_preloaded = True, a point
\* stored by add_data_point is marked False, and every status of a ticker
\* with a window has preloaded_count + live_count = size = the length of
\* the window as a whole mutation left it.
C10_ProvenanceAndCounts ==
    /\ \A t \in DOMAIN data_buffers : \A i \in 1..Len(data_buffers[t]) :
          data_buffers[t][i].is_preloaded \in {"True", "False"}
    /\ (w.pc = "add_stored" /\ data_buffers[w.ticker] # << >>) =>
          data_buffers[w.ticker][Len(data_buffers[w.ticker])].is_preloaded = "False"
    /\ (w.pc \in {"preload_rows", "preload_done"} /\ Consumed # << >>) =>
          data_buffers[w.ticker][Len(data_buffers[w.ticker])].is_preloaded = "True"
    /\ \A r \in Readers :
          (result[r].op = "get_buffer_status" /\ result[r].status.has_preloaded_count) =>
              /\ result[r].status.preloaded_count + result[r].status.live_count
                    = result[r].status.size
              /\ result[r].status.size = result[r].seen_size

\* A status that counts preloaded and live points side by side.
C10_Witness ==
    \E r \in Readers :
        /\ result[r].op = "get_buffer_status"
        /\ result[r].status.preloaded_count >= 1
        /\ result[r].status.live_count >= 1

(***************************************************************************)
(* Stopping: clear_all called from the dashboard thread while the feed     *)
(* thread is still inside one last add_data_point.                         *)
(***************************************************************************)
\* Variant: clear_all does not wait for the lock.
StopClearAllAcquireUnlocked(r) ==
    /\ rd[r].pc = "idle"
    /\ result[r].op # "clear_all"
    /\ rd' = [rd EXCEPT ![r] = [ReaderIdle EXCEPT !.pc = "clearing"]]
    /\ UNCHANGED <<data_buffers, messages_per_ticker, total_messages,
                   preloaded_tickers, lock, w, result, committed, filled>>
    /\ UNCHANGED <<market, client>>

\* `with self.lock:` of clear_all, called once by thread r.
StopClearAllAcquire(r) ==
    /\ rd[r].pc = "idle"
    /\ result[r].op # "clear_all"
    /\ CanAcquire(lock)
    /\ lock' = r
    /\ rd' = [rd EXCEPT ![r] = [ReaderIdle EXCEPT !.pc = "clearing"]]
    /\ UNCHANGED <<data_buffers, messages_per_ticker, total_messages,
                   preloaded_tickers, w, result, committed, filled>>
    /\ UNCHANGED <<market, client>>

\* Lines 205-208, and the end of the `with` block.
StopClearAllBody(r) ==
    /\ rd[r].pc = "clearing"
    /\ data_buffers' = EmptyDict
    /\ messages_per_ticker' = EmptyDict
    /\ preloaded_tickers' = << >>
    /\ total_messages' = 0
    /\ lock' = IF lock = r THEN NoThread ELSE lock
    /\ rd' = [rd EXCEPT ![r] = ReaderIdle]
    /\ result' = [result EXCEPT ![r] = [NoResult EXCEPT !.op = "clear_all"]]
    /\ committed' = EmptyDict
    /\ filled' = [t \in Symbols |-> -1]
    /\ UNCHANGED w
    /\ UNCHANGED <<market, client>>

\* The last add_data_point of the feed thread has returned or raised; the
\* thread makes no further call.
StragglerReturn ==
    /\ w.pc \in {"add_rejected", "add_stored", "add_raised"}
    /\ w' = [w EXCEPT !.pc = "returned"]
    /\ UNCHANGED <<data_buffers, messages_per_ticker, total_messages,
                   preloaded_tickers, lock, rd, result, committed, filled>>
    /\ UNCHANGED <<market, client>>

\* One add_data_point of the feed thread and one clear_all of another thread,
\* on a manager that holds nothing yet.
NextStop ==
    \/ \E t \in Symbols, ts \in FeedTimestamps : AddAcquire(t, FeedData(t, ts))
    \/ AddGate
    \/ AddStore
    \/ AddTotal
    \/ StragglerReturn
    \/ \E r \in Readers : StopClearAllAcquire(r)
    \/ \E r \in Readers : StopClearAllBody(r)

SpecStop == Init /\ [][NextStop]_vars

(***************************************************************************)
(* Every method, under a fair scheduler.                                   *)
(***************************************************************************)
\* The feed of the session: a tick that is stored, a tick the gate rejects,
\* and a tick whose timestamp is text, on which line 99 raises.
LiveTimestamps ==
    { EpochMs(T_REG2[1], T_REG2[2]), EpochMs(T_AFTER[1], T_AFTER[2]), Text }

NextLive ==
    \/ \E t \in Selected : PreloadAcquire(t, FrameOfLen(1))
    \/ PreloadRow
    \/ PreloadEnd
    \/ \E t \in Selected, ts \in LiveTimestamps : AddAcquire(t, FeedData(t, ts))
    \/ AddGate
    \/ AddStore
    \/ AddTotal
    \/ WriterReturn
    \/ \E t \in Selected : clear_ticker(t)
    \/ clear_all
    \/ \E r \in Readers, t \in Selected : GetDataframeAcquire(r, t)
    \/ \E r \in Readers : GetDataframeReturn(r)
    \/ \E r \in Readers, t \in Selected : GetBufferStatusAcquire(r, t)
    \/ \E r \in Readers : GetBufferStatusScan(r)
    \/ \E r \in Readers : GetBufferStatusReturn(r)
    \/ \E r \in Readers, t \in Selected : GetLatestPointAcquire(r, t)
    \/ \E r \in Readers : GetLatestPointReturn(r)
    \/ \E r \in Readers, t \in Selected : GetBufferSizeAcquire(r, t)
    \/ \E r \in Readers : GetBufferSizeReturn(r)
    \/ \E r \in Readers, t \in Selected : IsBufferFullCall(r, t)
    \/ \E r \in Readers : IsBufferFullAcquire(r)
    \/ \E r \in Readers : IsBufferFullReturn(r)
    \/ \E r \in Readers : GetStatisticsAcquire(r)
    \/ \E r \in Readers : GetStatisticsReturn(r)

\* The steps a thread takes inside a method body, up to its return.
WriterStep ==
    PreloadRow \/ PreloadEnd \/ AddGate \/ AddStore \/ AddTotal \/ WriterReturn

ReaderStep(r) ==
    \/ GetDataframeReturn(r)
    \/ GetBufferStatusScan(r)
    \/ GetBufferStatusReturn(r)
    \/ GetLatestPointReturn(r)
    \/ GetBufferSizeReturn(r)
    \/ IsBufferFullReturn(r)
    \/ GetStatisticsReturn(r)

\* A thread inside a method body keeps running (weak fairness of the steps
\* taken with the lock held and of the return), and a thread waiting for
\* the lock inside is_buffer_full gets it if it is free again and again
\* (strong fairness of the acquisition).
Fairness ==
    /\ WF_vars(WriterStep)
    /\ \A r \in Readers : WF_vars(ReaderStep(r)) /\ SF_vars(IsBufferFullAcquire(r))

SpecLive == Init /\ [][NextLive]_vars /\ Fairness

(***************************************************************************)
(* Readers, clearing and counters.                                         *)
(***************************************************************************)
\* The step is the return of a reader's call.
ReaderReturns(r) == rd[r].pc # "idle" /\ rd'[r].pc = "idle"

\* The value a reader's call returned is the empty or zero value of its kind.
EmptyValue(res) ==
    /\ res.op = "get_dataframe" => res.rows = << >>
    /\ res.op = "get_latest_point" => res.point = NoPoint
    /\ res.op = "get_buffer_size" => res.size = 0
    /\ res.op = "is_buffer_full" => res.full = FALSE
    /\ res.op = "get_buffer_status" =>
          /\ res.status.size = 0
          /\ res.status.percentage = 0
          /\ res.status.is_full = FALSE
          /\ res.status.preloaded = FALSE
          /\ res.status.live_count = 0
    /\ res.op = "get_statistics" => res.stats = NoStats

\* C11: a window comes into being only in a preload or an add_data_point of
\* its symbol, so a symbol never passed to either has none; and every read
\* of a symbol without a window (get_dataframe, get_latest_point,
\* get_buffer_size, is_buffer_full, get_buffer_status) returns its empty
\* value and leaves the windows and the counters as they were.
C11_EmptyReads ==
    [][ /\ \A t \in Symbols :
              (t \in DOMAIN data_buffers' /\ t \notin DOMAIN data_buffers) =>
                  /\ w.pc = "idle"
                  /\ w'.pc \in {"preload_rows", "add_gate"}
                  /\ w'.ticker = t
        /\ \A r \in Readers :
              rd'[r] # rd[r] =>
                  /\ DOMAIN data_buffers' = DOMAIN data_buffers
                  /\ DOMAIN messages_per_ticker' = DOMAIN messages_per_ticker
        /\ \A r \in Readers :
              ( /\ ReaderReturns(r)
                /\ rd[r].ticker \in Symbols
                /\ rd[r].ticker \notin DOMAIN data_buffers ) =>
                  /\ result'[r].op # "none"
                  /\ result'[r].ticker = rd[r].ticker
                  /\ EmptyValue(result'[r]) ]_vars

\* is_buffer_full of a symbol that is never written returned false, while
\* another symbol has a window.
C11_Witness ==
    \E r \in Readers :
        /\ result[r].op = "is_buffer_full"
        /\ result[r].ticker \notin Selected
        /\ result[r].full = FALSE
        /\ result[r].ticker \notin DOMAIN data_buffers
        /\ data_buffers # EmptyDict

\* C12 (as claimed): every dictionary get_buffer_status returns, the one for
\* a symbol without a window included, has the key preloaded_count.
C12_StatusHasSevenFields ==
    \A r \in Readers : result[r].op = "get_buffer_status" =>
        result[r].status.has_preloaded_count

\* The last point of a list, NoPoint for the empty list.
LastOf(win) == IF win = << >> THEN NoPoint ELSE win[Len(win)]

\* C13: get_latest_point returns the last point, in insertion order, of the
\* window as the last whole mutation left it, and None for an empty or
\* absent window; after a stored add_data_point the latest point is that
\* point, after a preload of a non-empty frame it is the frame's last bar,
\* after clear_ticker and clear_all it is None, and after a call the gate
\* rejected it is what it was before the call.
C13_LatestIsLastStored ==
    [][ /\ \A r \in Readers :
              (rd[r].pc = "latest" /\ rd'[r].pc = "idle") =>
                  /\ result'[r].op = "get_latest_point"
                  /\ result'[r].point = LastOf(WindowOf(committed, rd[r].ticker))
        /\ w'.pc = "add_stored" =>
              get_latest_point(data_buffers', w'.ticker) = w'.data
        /\ (w'.pc = "preload_done" /\ w'.df # << >>) =>
              get_latest_point(data_buffers', w'.ticker) =
                  PreloadPoint(w'.ticker, w'.df[Len(w'.df)])
        /\ w'.pc = "cleared" =>
              \A t \in Symbols :
                  (w'.ticker \in {t, ""}) =>
                      get_latest_point(data_buffers', t) = NoPoint
        /\ w'.pc = "add_rejected" =>
              get_latest_point(data_buffers', w'.ticker) = LastOf(w'.before.window)
      ]_vars

\* A reader got a preloaded point as the latest one, and the writer's next
\* tick was rejected by the gate, leaving that point the latest.
C13_Witness ==
    \E r \in Readers :
        /\ result[r].op = "get_latest_point"
        /\ result[r].point # NoPoint
        /\ result[r].point.is_preloaded = "True"
        /\ w.pc = "add_rejected"
        /\ w.ticker = result[r].ticker
        /\ get_latest_point(data_buffers, w.ticker) = result[r].point

\* C14 (as claimed): when clear_ticker(symbol) has returned, the symbol is
\* not in preloaded_tickers.
C14_ClearRemovesFromPreloaded ==
    (w.pc = "cleared" /\ w.ticker # "") => ~InList(preloaded_tickers, w.ticker)

\* C15 (as claimed): no symbol occurs twice in preloaded_tickers.
C15_PreloadedIsSet ==
    \A i, j \in 1..Len(preloaded_tickers) :
        i # j => preloaded_tickers[i] # preloaded_tickers[j]

\* The writer's last call was clear_all, and it has made no call since.
AfterClearAll == w.pc = "cleared" /\ w.ticker = ""

\* C16: when clear_all has returned and nothing was written since,
\* get_statistics reports total_messages 0, active_tickers 0, no per-symbol
\* counts, no buffer sizes and no preloaded symbol, and every reader that
\* returns returns its empty value, on every symbol.
C16_ClearAllResets ==
    /\ [](AfterClearAll =>
            /\ get_statistics(data_buffers, messages_per_ticker, total_messages,
                              preloaded_tickers) = NoStats
            /\ \A t \in Symbols :
                  /\ get_dataframe(data_buffers, t) = { << >> }
                  /\ get_latest_point(data_buffers, t) = NoPoint
                  /\ get_buffer_size(data_buffers, t) = 0)
    /\ [][ \A r \in Readers :
             (ReaderReturns(r) /\ AfterClearAll) =>
                 /\ result'[r].op # "none"
                 /\ EmptyValue(result'[r]) ]_vars

\* A reader is inside get_statistics after a clear_all of a manager that
\* had counted a message.
C16_Witness ==
    /\ AfterClearAll
    /\ w.before.total >= 1
    /\ \E r \in Readers : rd[r].pc = "statistics" /\ lock = r

\* C17: a stored add_data_point raises the ticker's counter and the total
\* by exactly 1 and changes no other counter; no other step changes a
\* counter's value (0 for a ticker without a counter) except clear_all,
\* which sets all of them to 0: not a preload, not a rejected
\* add_data_point, not clear_ticker, not a reader.
C17_CountersCountAdmitted ==
    /\ [](w.pc = "add_stored" =>
            /\ total_messages = w.before.total + 1
            /\ CountOf(messages_per_ticker, w.ticker) = w.before.count + 1)
    /\ [][ LET changed(t) == CountOf(messages_per_ticker', t) #
                                 CountOf(messages_per_ticker, t)
           IN  /\ \A t \in Symbols : changed(t) =>
                     \/ /\ w.pc = "add_store" /\ w'.pc = "add_total"
                        /\ t = w.ticker
                        /\ CountOf(messages_per_ticker', t) =
                               CountOf(messages_per_ticker, t) + 1
                     \/ /\ w.pc = "idle" /\ w'.pc = "cleared" /\ w'.ticker = ""
                        /\ messages_per_ticker' = EmptyDict
               /\ total_messages' # total_messages =>
                     \/ /\ w.pc = "add_total" /\ w'.pc = "add_stored"
                        /\ total_messages' = total_messages + 1
                     \/ /\ w.pc = "idle" /\ w'.pc = "cleared" /\ w'.ticker = ""
                        /\ total_messages' = 0 ]_vars

\* clear_ticker has emptied the window of a ticker with a counted message,
\* and the counters still count it.
C17_Witness ==
    /\ w.pc = "cleared"
    /\ w.ticker # ""
    /\ w.before.window # << >>
    /\ w.before.count >= 1
    /\ CountOf(messages_per_ticker, w.ticker) = w.before.count
    /\ total_messages = w.before.total
    /\ total_messages >= 1

\* The sum of the values of a dictionary of numbers.
RECURSIVE SumOf(_)
SumOf(d) ==
    IF DOMAIN d = {} THEN 0
    ELSE LET k == CHOOSE x \in DOMAIN d : TRUE
         IN  d[k] + SumOf([x \in DOMAIN d \ {k} |-> d[x]])

\* total, counts and sizes fit together.
Consistent(total, counts, sizes, active) ==
    /\ total = SumOf(counts)
    /\ DOMAIN sizes = DOMAIN counts
    /\ active = Cardinality(DOMAIN counts)

\* C18: whenever no call holds the lock, total_messages is the sum of
\* messages_per_ticker and the windows and the counters have the same
\* symbols; and every dictionary get_statistics returned, also one taken
\* while an add_data_point was under way, has total_messages equal to the
\* sum of its messages_per_ticker, buffer_sizes on the same symbols as
\* messages_per_ticker, and active_tickers equal to their number.
C18_CountersConsistent ==
    /\ lock = NoThread =>
          Consistent(total_messages, messages_per_ticker, data_buffers,
                     Cardinality(DOMAIN data_buffers))
    /\ \A r \in Readers : result[r].op = "get_statistics" =>
          Consistent(result[r].stats.total_messages,
                     result[r].stats.messages_per_ticker,
                     result[r].stats.buffer_sizes,
                     result[r].stats.active_tickers)

\* A reader holds statistics that count a message, while the writer is
\* between counting the next message for its ticker and in the total.
C18_Witness ==
    \E r \in Readers :
        /\ result[r].op = "get_statistics"
        /\ result[r].stats.total_messages >= 1
        /\ w.pc = "add_total"
        /\ total_messages # SumOf(messages_per_ticker)

\* Both calls are over: the add_data_point and the clear_all.
BothDone ==
    /\ w.pc = "returned"
    /\ \A r \in Readers : rd[r].pc = "idle"
    /\ \E r \in Readers : result[r].op = "clear_all"

\* C19: with one add_data_point and one clear_all on different threads,
\* neither raises, and when both are over the manager is in the state one
\* of the two orders leaves: nothing at all (add_data_point first), or what
\* add_data_point leaves on the empty manager (clear_all first), which for
\* a stored point is the one point with the ticker's counter and the total
\* at 1.
C19_ClearAllSerializable ==
    /\ w.pc # "add_raised"
    /\ BothDone =>
          LET input == FeedData(w.ticker, w.data.timestamp)
              alone == add_data_point(EmptyDict, EmptyDict, 0, w.ticker, input)
          IN  /\ preloaded_tickers = << >>
              /\ \/ /\ data_buffers = EmptyDict
                    /\ messages_per_ticker = EmptyDict
                    /\ total_messages = 0
                 \/ /\ data_buffers = alone.data_buffers
                    /\ messages_per_ticker = alone.messages_per_ticker
                    /\ total_messages = alone.total_messages
              /\ (w.data.is_preloaded = "False" /\ data_buffers # EmptyDict) =>
                    /\ data_buffers = DictSet(EmptyDict, w.ticker, <<w.data>>)
                    /\ messages_per_ticker = DictSet(EmptyDict, w.ticker, 1)
                    /\ total_messages = 1

\* Both are over and the point is there: clear_all ran first.
C19_Witness ==
    /\ BothDone
    /\ w.data.is_preloaded = "False"
    /\ total_messages = 1
    /\ Len(data_buffers[w.ticker]) = 1

\* The places of a method body, where the thread holds the lock.
WriterInside == {"preload_rows", "add_gate", "add_store", "add_total"}

ReaderInside == {"dataframe", "status_scan", "status_build", "latest", "size",
                 "full_size", "statistics"}

\* The lock is held exactly by a thread that is inside a method body: it is
\* free again after every return, early return and exception, and a thread
\* about to acquire it does not hold it.
LockDiscipline ==
    /\ lock = Writer <=> w.pc \in WriterInside
    /\ \A r \in Readers : lock = r <=> rd[r].pc \in ReaderInside
    /\ lock \in {NoThread, Writer} \cup Readers

\* C20: the lock is released on every exit path and never requested by its
\* holder, and under a fair scheduler the lock is always freed again and
\* every call of the writer and of the readers returns.
C20_NoOperationBlocks ==
    /\ []LockDiscipline
    /\ (lock # NoThread) ~> (lock = NoThread)
    /\ (w.pc # "idle") ~> (w.pc = "idle")
    /\ \A r \in Readers : (rd[r].pc # "idle") ~> (rd[r].pc = "idle")

\* A reader inside is_buffer_full waits for the lock, which the writer
\* holds inside an add_data_point that is about to raise.
C20_Witness ==
    /\ \E r \in Readers : rd[r].pc = "full_call"
    /\ lock = Writer
    /\ w.pc = "add_gate"
    /\ ResolveRaises(w.data)

(***************************************************************************)
(* MarketHours: the market status and the next open and close.  The        *)
(* methods are static and keep no state; market holds the position and the *)
(* locals of the thread that calls them.  The tick of the model is the     *)
(* millisecond (the datetime of the source counts microseconds).           *)
(***************************************************************************)
\* dt.astimezone(UTC), and the same fields without tzinfo.
InUtc(dt) == LET u == ToUtc(dt) IN Aware(u[1], u[2], 0)

WithoutZone(dt) == Naive(dt.day, dt.ms)

\* The days the wall clock of the model runs over: Monday 2025-12-29 to
\* Sunday 2027-01-03, the year of the holiday list with both of its ends.
ClockDays == DaysFromCivil(2025, 12, 29) .. DaysFromCivil(2027, 1, 3)

\* Wall-clock times: each boundary of a session and the tick before it,
\* midnight, noon and the last tick of the day.
BoundaryTimes ==
    { 0, PRE_MARKET_START - 1, PRE_MARKET_START, MARKET_OPEN - 1, MARKET_OPEN,
      TimeOfDay(12, 0), MARKET_CLOSE - 1, MARKET_CLOSE, AFTER_HOURS_END - 1,
      AFTER_HOURS_END, MS_PER_DAY - 1 }

\* get_eastern_time(): the values datetime.now(EASTERN) takes in the model.
ClockValues ==
    { EasternLocalize(Naive(d, m)) : d \in ClockDays, m \in BoundaryTimes }

\* The arguments of get_market_session: every instant of the clock as an
\* Eastern datetime, as a UTC datetime and as a naive datetime in UTC.
SessionArguments ==
    ClockValues \cup { InUtc(e) : e \in ClockValues }
                \cup { WithoutZone(InUtc(e)) : e \in ClockValues }

\* `for _ in range(10)` of _get_next_market_open.
SCAN_DAYS == 10

\* dt.replace(hour=.., minute=.., second=0, microsecond=0): the date and
\* the tzinfo object of dt stay.
Replace(dt, tod) == [dt EXCEPT !.ms = tod]

\* dt + timedelta(days=1): wall-clock arithmetic, the tzinfo object of dt
\* (a fixed offset of the zone) stays.
PlusOneDay(dt) == [dt EXCEPT !.day = @ + 1]

\* Variant: the close of the day for every argument.
_get_next_market_close_any(from_dt) == Replace(from_dt, MARKET_CLOSE)

_get_next_market_close(from_dt) ==
    IF is_market_open(from_dt) THEN Replace(from_dt, MARKET_CLOSE) ELSE None

\* Variant: an argument at the open itself still counts as before it.
OpensTodayInclusive(current) ==
    current.ms <= MARKET_OPEN /\ is_trading_day(current)

\* Line 259: `current.time() < MARKET_OPEN and is_trading_day(current)`.
OpensToday(current) == current.ms < MARKET_OPEN /\ is_trading_day(current)

\* What does not belong to the caller of MarketHours.
managerVars ==
    <<data_buffers, messages_per_ticker, total_messages, preloaded_tickers,
      lock, w, rd, result, committed, filled>>

\* get_market_session(dt), called on its own.
GetMarketSession(dt) ==
    /\ market.pc = "idle"
    /\ market' = [MarketIdle EXCEPT !.pc = "done", !.op = "session", !.dt = dt,
                                    !.session = get_market_session(dt)]
    /\ UNCHANGED <<managerVars, client>>

\* _get_next_market_close(from_dt), called on its own.
GetNextMarketClose(from_dt) ==
    /\ market.pc = "idle"
    /\ market' = [MarketIdle EXCEPT !.pc = "done", !.op = "next_close",
                                    !.dt = from_dt,
                                    !.value = _get_next_market_close(from_dt)]
    /\ UNCHANGED <<managerVars, client>>

\* _get_next_market_open(from_dt), called on its own: lines 256-265, the
\* open of the same day or the start of the scan.
GetNextMarketOpen(from_dt) ==
    /\ market.pc = "idle"
    /\ market' =
           IF OpensToday(from_dt)
           THEN [MarketIdle EXCEPT !.pc = "done", !.op = "next_open",
                                   !.dt = from_dt,
                                   !.value = Replace(from_dt, MARKET_OPEN)]
           ELSE [MarketIdle EXCEPT !.pc = "scan", !.op = "next_open",
                                   !.dt = from_dt, !.current = from_dt]
    /\ UNCHANGED <<managerVars, client>>

\* get_market_status() at the instant now_et of the clock: lines 213-249,
\* as far as the first turn of the scan of _get_next_market_open.
GetMarketStatus(now_et) ==
    /\ market.pc = "idle"
    /\ LET session == get_market_session(now_et)
           status  == [NoMarketStatus EXCEPT
                          !.is_open = (session = "regular"),
                          !.session = session,
                          !.current_time_et = now_et]
           call    == [MarketIdle EXCEPT !.op = "status", !.dt = now_et,
                                         !.session = session]
       IN  market' =
               IF session = "regular"
               THEN [call EXCEPT !.pc = "done",
                        !.status = [status EXCEPT
                            !.has_next_close = TRUE,
                            !.next_close = _get_next_market_close(now_et)]]
               ELSE IF OpensToday(now_et)
               THEN [call EXCEPT !.pc = "done",
                        !.status = [status EXCEPT
                            !.has_next_open = TRUE,
                            !.next_open = Replace(now_et, MARKET_OPEN)]]
               ELSE [call EXCEPT !.pc = "scan", !.current = now_et,
                                 !.status = status]
    /\ UNCHANGED <<managerVars, client>>

\* What _get_next_market_open returns goes to its caller: the value of the
\* call, or status['next_open'] of get_market_status.
ScanReturns(m, v) ==
    IF m.op = "status"
    THEN [m EXCEPT !.pc = "done",
                   !.status = [m.status EXCEPT !.has_next_open = TRUE,
                                               !.next_open = v]]
    ELSE [m EXCEPT !.pc = "done", !.value = v]

\* One turn of `for _ in range(10):` (lines 268-276), and `return None`
\* (line 278) after the last one.
GetNextMarketOpenScan ==
    /\ market.pc = "scan"
    /\ LET current == PlusOneDay(market.current)
           turn    == [market EXCEPT !.current = current, !.i = @ + 1]
       IN  market' =
               IF is_trading_day(current)
               THEN ScanReturns(turn, Replace(current, MARKET_OPEN))
               ELSE IF turn.i = SCAN_DAYS
               THEN ScanReturns(turn, None)
               ELSE turn
    /\ UNCHANGED <<managerVars, client>>

\* The caller has used the value.
MarketReturn ==
    /\ market.pc = "done"
    /\ market' = MarketIdle
    /\ UNCHANGED <<managerVars, client>>

\* A call starts when the caller is between two calls; the argument is
\* drawn only then.
NextMarket ==
    \/ market.pc = "idle" /\ \E dt \in SessionArguments : GetMarketSession(dt)
    \/ market.pc = "idle" /\ \E from_dt \in ClockValues : GetNextMarketClose(from_dt)
    \/ market.pc = "idle" /\ \E from_dt \in ClockValues : GetNextMarketOpen(from_dt)
    \/ market.pc = "idle" /\ \E now_et \in ClockValues : GetMarketStatus(now_et)
    \/ GetNextMarketOpenScan
    \/ MarketReturn

SpecMarket == Init /\ [][NextMarket]_vars

(***************************************************************************)
(* The DataFrame filters of MarketHours.  A DataFrame is the sequence of   *)
(* its rows; a row has the timestamp column and its index label n.  The    *)
(* timestamp column has one dtype: datetime64 without a zone, or with UTC  *)
(* or with US/Eastern.                                                     *)
(***************************************************************************)
Row(n, ts) == [n |-> n, timestamp |-> ts]

\* `df[timestamp_col].dt.tz is None`.
ColumnIsNaive(df) == df[1].timestamp.k = "naive"

\* .dt.tz_localize(UTC) of a column without a zone, then
\* .dt.tz_convert(EASTERN): lines 314-318 (and 407-410).
ColumnToEastern(df) ==
    [i \in 1..Len(df) |->
        [df[i] EXCEPT !.timestamp =
            IF ColumnIsNaive(df) THEN AsEastern(LocalizeUtc(@))
            ELSE AsEastern(@)]]

\* Variant: the time mask takes the close itself.
filter_regular_hours_to_close(df) ==
    IF df = << >> THEN df
    ELSE LET mask(row) ==
                 /\ row.timestamp.ms >= MARKET_OPEN
                 /\ row.timestamp.ms <= MARKET_CLOSE
                 /\ Weekday(row.timestamp.day) < 5
                 /\ row.timestamp.day \notin MARKET_HOLIDAYS_2026
         IN  Bind(ColumnToEastern(df), LAMBDA eastern : SelectSeq(eastern, mask))

\* time_mask & weekday_mask & holiday_mask on the Eastern column.
filter_regular_hours(df) ==
    IF df = << >> THEN df
    ELSE LET mask(row) ==
                 /\ row.timestamp.ms >= MARKET_OPEN
                 /\ row.timestamp.ms < MARKET_CLOSE
                 /\ Weekday(row.timestamp.day) < 5
                 /\ row.timestamp.day \notin MARKET_HOLIDAYS_2026
         IN  Bind(ColumnToEastern(df), LAMBDA eastern : SelectSeq(eastern, mask))

\* weekday_mask & holiday_mask on the Eastern column, no time of day.
filter_trading_days(df) ==
    IF df = << >> THEN df
    ELSE LET mask(row) ==
                 /\ Weekday(row.timestamp.day) < 5
                 /\ row.timestamp.day \notin MARKET_HOLIDAYS_2026
         IN  Bind(ColumnToEastern(df), LAMBDA eastern : SelectSeq(eastern, mask))

\* The three dtypes of a timestamp column, as conversions of an Eastern
\* datetime of the clock.
ColumnZones == {"eastern", "utc", "naive"}

InColumn(zone, e) ==
    CASE zone = "eastern" -> e
      [] zone = "utc"     -> InUtc(e)
      [] zone = "naive"   -> WithoutZone(InUtc(e))

\* The days of the frames of two rows: Friday 2026-01-30, Saturday
\* 2026-01-31 and Martin Luther King Day, Monday 2026-01-19.
FrameDays ==
    { DaysFromCivil(2026, 1, 30), DaysFromCivil(2026, 1, 31),
      DaysFromCivil(2026, 1, 19) }

FrameTimes == { MARKET_OPEN - 1, MARKET_OPEN, MARKET_CLOSE - 1, MARKET_CLOSE }

FrameValues ==
    { EasternLocalize(Naive(d, m)) : d \in FrameDays, m \in FrameTimes }

\* The DataFrames handed to a filter: the empty one, one row for every
\* instant of the clock, and two rows over FrameValues, in each dtype.
FilterFrames ==
    { << >> }
        \cup { << Row(0, dt) >> : dt \in SessionArguments }
        \cup { << Row(0, InColumn(z, a)), Row(1, InColumn(z, b)) >> :
                   z \in ColumnZones, a \in FrameValues, b \in FrameValues }

\* filter_regular_hours(df).
FilterRegularHours(df) ==
    /\ market.pc = "idle"
    /\ market' = [MarketIdle EXCEPT !.pc = "done",
                                    !.op = "filter_regular_hours",
                                    !.df = df,
                                    !.out = filter_regular_hours(df)]
    /\ UNCHANGED <<managerVars, client>>

\* filter_trading_days(df).
FilterTradingDays(df) ==
    /\ market.pc = "idle"
    /\ market' = [MarketIdle EXCEPT !.pc = "done",
                                    !.op = "filter_trading_days",
                                    !.df = df,
                                    !.out = filter_trading_days(df)]
    /\ UNCHANGED <<managerVars, client>>

\* filter_regular_hours applied to what filter_regular_hours returned.
FilterRegularHoursAgain ==
    /\ market.pc = "done"
    /\ market.op = "filter_regular_hours"
    /\ market' = [MarketIdle EXCEPT !.pc = "done",
                                    !.op = "filter_regular_hours_again",
                                    !.df = market.out,
                                    !.out = filter_regular_hours(market.out)]
    /\ UNCHANGED <<managerVars, client>>

NextFilter ==
    \/ market.pc = "idle" /\ \E df \in FilterFrames : FilterRegularHours(df)
    \/ market.pc = "idle" /\ \E df \in FilterFrames : FilterTradingDays(df)
    \/ FilterRegularHoursAgain
    \/ MarketReturn

SpecFilter == Init /\ [][NextFilter]_vars

(***************************************************************************)
(* MarketHours: sessions, next open, next close.                           *)
(***************************************************************************)
\* The exchange-local wall clock of the instant a datetime stands for; a
\* datetime without tzinfo stands for the UTC instant with its fields.
LocalOf(dt) ==
    IF dt.k = "naive" THEN AsEastern(Aware(dt.day, dt.ms, 0)) ELSE AsEastern(dt)

\* A date that is neither a Saturday, a Sunday nor on the holiday list.
TradingDate(day) == Weekday(day) < 5 /\ day \notin MARKET_HOLIDAYS_2026

\* The session of a time of day on a trading date, as half-open intervals.
Piecewise(tod) ==
    IF TimeOfDay(4, 0) <= tod /\ tod < TimeOfDay(9, 30) THEN "pre_market"
    ELSE IF TimeOfDay(9, 30) <= tod /\ tod < TimeOfDay(16, 0) THEN "regular"
    ELSE IF TimeOfDay(16, 0) <= tod /\ tod < TimeOfDay(20, 0) THEN "after_hours"
    ELSE "closed"

SessionDone == market.pc = "done" /\ market.op = "session"

\* C21: on a trading date get_market_session is the piecewise function of
\* the exchange-local time of day over [04:00, 09:30), [09:30, 16:00),
\* [16:00, 20:00) and the rest (09:30 is regular and the tick before it
\* pre-market, 16:00 is after-hours, 20:00 is closed); is_market_open, and
\* 'is_open' of the market status, hold exactly when the session is regular.
C21_SessionIsPiecewise ==
    /\ SessionDone =>
           /\ TradingDate(LocalOf(market.dt).day)
                  => market.session = Piecewise(LocalOf(market.dt).ms)
           /\ is_market_open(market.dt) <=> market.session = "regular"
    /\ (market.pc = "done" /\ market.op = "status") =>
           /\ TradingDate(market.dt.day)
                  => market.status.session = Piecewise(market.dt.ms)
           /\ market.status.is_open <=> market.status.session = "regular"

\* The tick before the open of a trading date was classified: pre-market.
C21_Witness ==
    /\ SessionDone
    /\ TradingDate(LocalOf(market.dt).day)
    /\ LocalOf(market.dt).ms = TimeOfDay(9, 30) - 1
    /\ market.session = "pre_market"

\* C22: get_market_session is closed at every time of day of an
\* exchange-local Saturday, Sunday or holiday, and the date it tests is the
\* local one: on a local trading date the session is closed only before
\* 04:00 and from 20:00 on, whatever the UTC date of the instant is.
C22_ClosedByLocalDate ==
    SessionDone =>
        /\ ~TradingDate(LocalOf(market.dt).day) => market.session = "closed"
        /\ TradingDate(LocalOf(market.dt).day) =>
               ( market.session = "closed" <=>
                     \/ LocalOf(market.dt).ms < TimeOfDay(4, 0)
                     \/ LocalOf(market.dt).ms >= TimeOfDay(20, 0) )

\* A UTC datetime of a Saturday that is Friday evening at the exchange was
\* classified by Friday's rules: after-hours.
C22_Witness ==
    /\ SessionDone
    /\ market.dt.k = "aware" /\ market.dt.off = 0
    /\ Weekday(market.dt.day) = 5
    /\ Weekday(LocalOf(market.dt).day) = 4
    /\ market.session = "after_hours"

\* C23: the session of a datetime without tzinfo is the session of the
\* same fields tagged as UTC, and the session of a zone-aware datetime is
\* that of the same instant in UTC and that of the same instant in
\* exchange-local time.
C23_NaiveIsUtc ==
    SessionDone =>
        /\ market.dt.k = "naive" =>
               market.session = get_market_session(Aware(market.dt.day, market.dt.ms, 0))
        /\ market.dt.k = "aware" =>
               /\ market.session = get_market_session(InUtc(market.dt))
               /\ market.session = get_market_session(AsEastern(market.dt))

\* A datetime without tzinfo was classified whose fields, read as
\* exchange-local time, lie in another session.
C23_Witness ==
    /\ SessionDone
    /\ market.dt.k = "naive"
    /\ market.session # "closed"
    /\ market.session # get_market_session(EasternLocalize(market.dt))

\* A call of _get_next_market_open has returned, to its caller or into
\* status['next_open'].
Opened ==
    /\ market.pc = "done"
    /\ \/ market.op = "next_open"
       \/ market.op = "status" /\ market.status.has_next_open

NextOpenOf ==
    IF market.op = "status" THEN market.status.next_open ELSE market.value

C25_NextOpenIsLocalOpen ==
    (Opened /\ NextOpenOf.k = "aware") =>
        /\ get_market_session(NextOpenOf) = "regular"
        /\ get_market_session([NextOpenOf EXCEPT !.ms = @ - 1]) = "pre_market"

\* C26: the scan of _get_next_market_open makes one day step per turn and
\* at most SCAN_DAYS of them; with the holiday list of 2026 it finds a
\* trading date before the last turn, so the value returned is never None.
C26_ScanBounded ==
    /\ [](/\ market.i <= SCAN_DAYS
          /\ Opened => (NextOpenOf # None /\ market.i < SCAN_DAYS))
    /\ [][ market.pc = "scan" /\ market' # market
               => /\ market'.i = market.i + 1
                  /\ market'.pc \in {"scan", "done"} ]_vars

\* The longest scan: four day steps (Thursday evening before Good Friday).
C26_Witness == Opened /\ market.i = 4

\* C27: _get_next_market_close(from) is a datetime exactly when the session
\* of from is regular, and then 16:00 of the date of from, later than from;
\* the market status has 'next_close' exactly in the regular session and
\* 'next_open' exactly in the other sessions.
C27_NextCloseOnlyWhenRegular ==
    /\ (market.pc = "done" /\ market.op = "next_close") =>
           /\ market.value # None <=> get_market_session(market.dt) = "regular"
           /\ market.value # None =>
                  /\ market.value = Aware(market.dt.day, TimeOfDay(16, 0), market.dt.off)
                  /\ market.dt.ms < market.value.ms
    /\ (market.pc = "done" /\ market.op = "status") =>
           /\ market.status.has_next_close <=> market.status.session = "regular"
           /\ market.status.has_next_open <=> market.status.session # "regular"
           /\ market.status.has_next_close =>
                  market.status.next_close =
                      Aware(market.dt.day, TimeOfDay(16, 0), market.dt.off)

\* The status of the last tick of a regular session carries 'next_close'.
C27_Witness ==
    /\ market.pc = "done" /\ market.op = "status"
    /\ market.status.has_next_close
    /\ market.dt.ms = TimeOfDay(16, 0) - 1
    /\ market.status.next_close # None

(***************************************************************************)
(* Batch filter and point classifier.                                      *)
(***************************************************************************)
\* The index labels of the rows of a DataFrame, in order.
Labels(df) == [i \in 1..Len(df) |-> df[i].n]

\* The rows of df whose timestamp get_market_session puts in the regular
\* session.
RegularRows(df) ==
    LET regular(row) == get_market_session(row.timestamp) = "regular"
    IN  SelectSeq(df, regular)

Filtered == market.pc = "done" /\ market.op = "filter_regular_hours"

FilteredAgain == market.pc = "done" /\ market.op = "filter_regular_hours_again"

\* C31: filter_regular_hours keeps exactly the rows whose timestamp
\* get_market_session classifies as regular, for a column without a zone and
\* for a zone-aware one; every row it keeps filter_trading_days keeps too;
\* and filtering its result again returns that result.
C31_FilterAgreesWithSession ==
    /\ Filtered =>
          /\ Labels(market.out) = Labels(RegularRows(market.df))
          /\ \A i \in 1..Len(market.out) :
                 \E j \in 1..Len(filter_trading_days(market.df)) :
                     filter_trading_days(market.df)[j] = market.out[i]
    /\ FilteredAgain => market.out = market.df

\* A frame of two rows of which only the second is kept, filtered a second
\* time.
C31_Witness ==
    /\ FilteredAgain
    /\ Len(market.df) = 1
    /\ market.df[1].n = 1


(***************************************************************************)
(* The feed clients: StockWebSocketClient (the massive library calls       *)
(* _handle_messages with each list of messages) and                        *)
(* DirectMassiveWebSocketClient (its own receive loop).  The stream thread *)
(* of a client is the writer thread of the manager: the callback the       *)
(* dashboard registers calls add_data_point for a selected symbol.         *)
(***************************************************************************)
ClientKinds == {"stock", "direct"}

\* No list of messages is received once MaxBatches of them have been.
MaxBatches == 2

\* The messages of the model: a bar of the regular session, a bar whose
\* start timestamp arrives as text, and a bar of a symbol not selected.
FeedItems ==
    { FeedData("AAPL", EpochMs(T_REG2[1], T_REG2[2])),
      FeedData("AAPL", Text),
      FeedData("MSFT", EpochMs(T_REG2[1], T_REG2[2])) }

\* The lists one receive delivers: one or two messages.
Batches ==
    { <<a>> : a \in FeedItems } \cup { <<a, b>> : a \in FeedItems, b \in FeedItems }

\* The manager without the position of its writer thread.
storeVars ==
    <<data_buffers, messages_per_ticker, total_messages, preloaded_tickers,
      lock, rd, result, committed, filled>>

\* The constructor, set_message_callback, subscribe and start(): the
\* stream thread runs and waits for messages.
ClientStart(kind) ==
    /\ client = NoClient
    /\ client' = [NoClient EXCEPT !.kind = kind, !.is_running = TRUE,
                                  !.connected = TRUE, !.thread = "recv"]
    /\ UNCHANGED <<managerVars, market>>

\* A list of messages arrives: `while self.is_running:` and recv() of the
\* direct client, the call of _handle_messages by the library for the
\* other one (which consults no flag of the client).
ClientReceive(batch) ==
    /\ client.thread = "recv"
    /\ client.connected
    /\ client.kind = "direct" => client.is_running
    /\ client.received < MaxBatches
    /\ client' = [client EXCEPT !.thread = "batch", !.messages = batch,
                                !.received = @ + 1]
    /\ UNCHANGED <<managerVars, market>>

\* The stream ends: `while self.is_running:` is false (direct client), or
\* run() of the library returns once the connection is closed.
ClientStreamEnd ==
    /\ client.thread = "recv"
    /\ IF client.kind = "direct" THEN ~client.is_running ELSE ~client.connected
    /\ client' = [client EXCEPT !.thread = "ended"]
    /\ UNCHANGED <<managerVars, market>>

\* One turn of `for msg in messages:` / `for item in data:`: the callback
\* is called with the parsed message; handle_message returns at once for a
\* symbol that is not selected.
ClientDeliver ==
    /\ client.thread = "batch"
    /\ client.messages # << >>
    /\ client' = IF Head(client.messages).symbol \in Selected
                 THEN [client EXCEPT !.thread = "callback"]
                 ELSE [client EXCEPT !.messages = Tail(@)]
    /\ UNCHANGED <<managerVars, market>>

\* handle_message: stream_manager.add_data_point(symbol, data).
ClientIngest ==
    /\ client.thread = "callback"
    /\ AddAcquire(Head(client.messages).symbol, Head(client.messages))

\* add_data_point has returned, and so has the callback.
ClientCallbackReturn ==
    /\ client.thread = "callback"
    /\ w.pc \in {"add_rejected", "add_stored"}
    /\ w' = WriterIdle
    /\ client' = [client EXCEPT !.thread = "batch", !.messages = Tail(@)]
    /\ UNCHANGED <<storeVars, market>>

\* add_data_point has raised.  _handle_messages catches the exception
\* inside its loop and goes on with the next message; the loop of the
\* direct client catches only TimeoutError and ConnectionClosed, so the
\* exception leaves `while self.is_running:` and the coroutine ends.
ClientCallbackRaised ==
    /\ client.thread = "callback"
    /\ w.pc = "add_raised"
    /\ w' = WriterIdle
    /\ client' = IF client.kind = "stock"
                 THEN [client EXCEPT !.thread = "batch", !.messages = Tail(@)]
                 ELSE [client EXCEPT !.thread = "ended"]
    /\ UNCHANGED <<storeVars, market>>

\* The list is done: back to receiving.
ClientBatchEnd ==
    /\ client.thread = "batch"
    /\ client.messages = << >>
    /\ client' = [client EXCEPT !.thread = "recv"]
    /\ UNCHANGED <<managerVars, market>>

\* stop() up to the join: is_running = False; the client built on the
\* library also asks it to close the connection, which may fail (the
\* exception is caught and printed).
ClientStop ==
    /\ client.stop = "idle"
    /\ client.is_running
    /\ \E closed \in BOOLEAN :
           /\ client.kind = "direct" => ~closed
           /\ client' = [client EXCEPT !.is_running = FALSE,
                                       !.connected = @ /\ ~closed,
                                       !.stop = "joining"]
    /\ UNCHANGED <<managerVars, market>>

\* self.thread.join(timeout=...) returns, because the stream thread has
\* ended or because the timeout has passed; stop() returns.
ClientStopJoin ==
    /\ client.stop = "joining"
    /\ client' = [client EXCEPT !.stop = "returned"]
    /\ UNCHANGED <<managerVars, market>>

NextFeed ==
    \/ \E kind \in ClientKinds : ClientStart(kind)
    \/ \E batch \in Batches : ClientReceive(batch)
    \/ ClientStreamEnd
    \/ ClientDeliver
    \/ ClientIngest
    \/ AddGate
    \/ AddStore
    \/ AddTotal
    \/ ClientCallbackReturn
    \/ ClientCallbackRaised
    \/ ClientBatchEnd
    \/ ClientStop
    \/ ClientStopJoin

SpecFeed == Init /\ [][NextFeed]_vars

\* C28 (as claimed): when add_data_point raises on a point, the point is
\* not stored, the window and the counters are as before the call, and the
\* stream thread of the client goes on with the messages that follow.
C28_BadPointNotFatal ==
    [][ (client.thread = "callback" /\ w.pc = "add_raised" /\ w'.pc = "idle")
            => /\ WindowOf(data_buffers', w.ticker) = w.before.window
               /\ CountOf(messages_per_ticker', w.ticker) = w.before.count
               /\ total_messages' = w.before.total
               /\ client'.thread = "batch" ]_vars

\* C29 (as claimed): once stop() has returned, the stream thread of the
\* client calls the message callback no more.
C29_NoCallbackAfterStop ==
    [][ client.stop = "returned"
            => ~(client.thread = "batch" /\ client'.thread = "callback") ]_vars

(***************************************************************************)
(* What a rejected add_data_point leaves behind.                           *)
(***************************************************************************)
\* get_buffer_status(ticker) of a manager with these windows, run alone.
get_buffer_status(bufs, preloaded, ticker) ==
    IF ticker \notin DOMAIN bufs THEN UnknownStatus
    ELSE KnownStatus(bufs[ticker], bufs[ticker], ticker, preloaded)

\* C30 (as claimed): an add_data_point on a symbol without a window, with a
\* timestamp the gate rejects, leaves active_tickers, the keys of
\* buffer_sizes and of messages_per_ticker, and the status of the symbol as
\* they were.  The step looked at is the first of the call (lines 90-94);
\* the gate that follows changes neither windows nor counters, so what this
\* step leaves is what the caller finds after the call.
C30_RejectedAddLeavesNoTrace ==
    [][ ( /\ w.pc = "idle" /\ w'.pc = "add_gate"
          /\ w'.ticker \notin DOMAIN data_buffers
          /\ ~ResolveRaises(w'.data)
          /\ GateRejects(ResolveTimestamp(w'.data)) )
            => LET before == get_statistics(data_buffers, messages_per_ticker,
                                            total_messages, preloaded_tickers)
                   after  == get_statistics(data_buffers', messages_per_ticker',
                                            total_messages', preloaded_tickers')
               IN  /\ after.active_tickers = before.active_tickers
                   /\ DOMAIN after.buffer_sizes = DOMAIN before.buffer_sizes
                   /\ DOMAIN after.messages_per_ticker
                          = DOMAIN before.messages_per_ticker
                   /\ get_buffer_status(data_buffers', preloaded_tickers', w'.ticker)
                          = get_buffer_status(data_buffers, preloaded_tickers, w'.ticker)
      ]_vars

(***************************************************************************)
(* Live points and counters.                                               *)
(***************************************************************************)
\* 'live_count' of get_buffer_status(ticker): the points of the window that
\* are not marked is_preloaded.
LiveCountOf(ticker) ==
    get_buffer_status(data_buffers, preloaded_tickers, ticker).live_count

\* The step is clear_all.
ClearAllStep == w.pc = "idle" /\ w'.pc = "cleared" /\ w'.ticker = ""

\* C32: in every state the number of live points in the window of a symbol
\* is not more than messages_per_ticker of the symbol, and no step except
\* clear_all lowers total_messages.
C32_LiveWithinCounter ==
    /\ [](\A t \in Symbols : LiveCountOf(t) <= CountOf(messages_per_ticker, t))
    /\ [][ total_messages' < total_messages => ClearAllStep ]_vars

\* A symbol whose window holds a live point and whose counter counts more
\* than the window holds: a point counted earlier has left the window.
C32_Witness ==
    \E t \in Symbols :
        /\ LiveCountOf(t) >= 1
        /\ LiveCountOf(t) < CountOf(messages_per_ticker, t)
        /\ w.pc = "add_stored"

(***************************************************************************)
(* Isolation of the symbols.                                               *)
(***************************************************************************)
\* The ticker argument of the writer call a step belongs to.
ActingTicker == IF w.pc = "idle" THEN w'.ticker ELSE w.ticker

\* C33: a step of preload_historical_data, add_data_point or clear_ticker
\* on one symbol leaves the window contents, the counter and the membership
\* in preloaded_tickers of every other symbol as they were.
C33_SymbolsIsolated ==
    [][ ~ClearAllStep =>
            \A b \in Symbols \ {ActingTicker} :
                /\ WindowOf(data_buffers', b) = WindowOf(data_buffers, b)
                /\ CountOf(messages_per_ticker', b) = CountOf(messages_per_ticker, b)
                /\ InList(preloaded_tickers', b) = InList(preloaded_tickers, b) ]_vars

\* clear_ticker has emptied the window of one symbol while another symbol
\* is preloaded and holds a counted live point.
C33_Witness ==
    /\ w.pc = "cleared"
    /\ w.ticker # ""
    /\ w.before.window # << >>
    /\ \E b \in Symbols \ {w.ticker} :
           /\ InList(preloaded_tickers, b)
           /\ LiveCountOf(b) >= 1
           /\ CountOf(messages_per_ticker, b) >= 1

(***************************************************************************)
(* The life of a feed client: constructor, subscribe(), start(), the       *)
(* stream thread from its first statement on, stop(), and start() again.   *)
(* The message callback is a parameter of the client; here it only         *)
(* returns or raises.                                                      *)
(***************************************************************************)
Aggregations == {"minute", "second"}

\* The lists given to subscribe().
TickerLists == { << >>, <<"AAPL">>, <<"AAPL", "MSFT">> }

\* start() starts a thread at most MaxStarts times.
MaxStarts == 2

\* f"AM.{ticker}" for minute bars, f"A.{ticker}" otherwise.
Channel(aggregation, ticker) ==
    <<IF aggregation = "minute" THEN "AM" ELSE "A", ticker>>

\* The channel patterns of a list of tickers.
Patterns(aggregation, tickers) ==
    { Channel(aggregation, tickers[i]) : i \in 1..Len(tickers) }

\* Line 120 of websocket_client.py: self.client.subscribe("AM.AAPL","AM.MSFT").
FixedChannels == { <<"AM", "AAPL">>, <<"AM", "MSFT">> }

\* What the thread self.thread refers to does: it runs or it does not.
ThreadAlive == client.thread \notin {"none", "ended"}

\* The stream threads of the client that run.
AliveThreads == client.orphans + (IF ThreadAlive THEN 1 ELSE 0)

\* An entry of the log of the stream thread.
Event(e) == [e |-> e, ev |-> "", entered |-> FALSE]

\* The items of a data message: a minute bar, a second bar, a status item.
WireItems ==
    { [ev |-> "AM", sym |-> "AAPL"], [ev |-> "A", sym |-> "AAPL"],
      [ev |-> "status", sym |-> ""] }

\* What json.loads(message) gives in the message loop: a list of one or
\* two items, or (as the empty list) a value with nothing to go through.
WireLists ==
    { << >> } \cup { <<a>> : a \in WireItems }
              \cup { <<a, b>> : a \in WireItems, b \in WireItems }

\* The constructor of one of the two clients.
ClientInit(kind, aggregation) ==
    /\ client = NoClient
    /\ client' = [NoClient EXCEPT !.kind = kind, !.aggregation = aggregation]
    /\ UNCHANGED <<managerVars, market>>

\* subscribe(tickers).  StockWebSocketClient builds the library client when
\* there is none and hands it the patterns, and two fixed channels after
\* them; the direct client only keeps the list.
subscribe(tickers) ==
    /\ client.kind # "none"
    /\ client.stop = "idle"
    /\ client' =
           IF client.kind = "stock"
           THEN [client EXCEPT
                    !.has_client = TRUE,
                    !.subscribed_tickers = tickers,
                    !.subscriptions =
                        @ \cup Patterns(client.aggregation, tickers)
                          \cup FixedChannels]
           ELSE [client EXCEPT !.subscribed_tickers = tickers]
    /\ UNCHANGED <<managerVars, market>>

\* start(): nothing when is_running; StockWebSocketClient builds the library
\* client when there is none (it has no subscription then) and returns when
\* subscribed_tickers is empty; else is_running = True and a new thread runs.
\* A thread self.thread referred to before goes on on its own if it runs.
start ==
    /\ client.kind # "none"
    /\ client.stop = "idle"
    /\ client.starts < MaxStarts
    /\ client' =
           IF client.is_running
           THEN [client EXCEPT !.last = "start_ignored"]
           ELSE IF client.kind = "stock" /\ client.subscribed_tickers = << >>
           THEN [client EXCEPT !.has_client = TRUE, !.last = "start_no_tickers"]
           ELSE [client EXCEPT
                    !.has_client = (client.kind = "stock"),
                    !.is_running = TRUE,
                    !.orphans = IF ThreadAlive THEN @ + 1 ELSE @,
                    !.thread = IF client.kind = "stock" THEN "run" ELSE "connect",
                    !.subscriptions = IF client.kind = "stock" THEN @ ELSE {},
                    !.connected = FALSE,
                    !.messages = << >>,
                    !.entered = FALSE,
                    !.log = << >>,
                    !.cause = "none",
                    !.starts = @ + 1,
                    !.last = "started"]
    /\ UNCHANGED <<managerVars, market>>

\* stop() up to the join: nothing when not is_running; else
\* is_running = False, and StockWebSocketClient asks the library to close
\* the connection (an exception of that is caught) and forgets the library
\* client.
stop ==
    /\ client.kind # "none"
    /\ client.stop = "idle"
    /\ \/ /\ ~client.is_running
          /\ client' = [client EXCEPT !.last = "stop_ignored"]
       \/ /\ client.is_running
          /\ \E closed \in BOOLEAN :
                /\ client.kind = "direct" => ~closed
                /\ client' =
                       [client EXCEPT
                           !.is_running = FALSE,
                           !.connected = @ /\ ~closed,
                           !.has_client = FALSE,
                           !.subscriptions =
                               IF client.kind = "stock" THEN {} ELSE @,
                           !.stop = "joining",
                           !.last = "stopping"]
    /\ UNCHANGED <<managerVars, market>>

\* self.thread.join(timeout=...) returns, the thread ended or not, and
\* stop() returns.
stop_join ==
    /\ client.stop = "joining"
    /\ client' = [client EXCEPT !.stop = "idle", !.last = "stopped"]
    /\ UNCHANGED <<managerVars, market>>

\* A stream thread the client refers to no more ends; the one of
\* StockWebSocketClient may end in `except`, with is_running = False.
OrphanEnds ==
    /\ client.orphans > 0
    /\ \E raised \in BOOLEAN :
           /\ client.kind = "direct" => ~raised
           /\ client' = [client EXCEPT
                            !.orphans = @ - 1,
                            !.is_running = IF raised THEN FALSE ELSE @]
    /\ UNCHANGED <<managerVars, market>>

\* _run_stream of StockWebSocketClient: the library connects, and it calls
\* _handle_messages with a list of messages.
RunStreamHandle ==
    /\ client.thread = "run"
    /\ client.received < MaxBatches
    /\ client' = [client EXCEPT !.connected = TRUE, !.received = @ + 1]
    /\ UNCHANGED <<managerVars, market>>

\* self.client.run(...) returns: the connection is closed.
RunStreamReturns ==
    /\ client.thread = "run"
    /\ client' = [client EXCEPT !.thread = "ended", !.connected = FALSE,
                                !.cause = "run_returned"]
    /\ UNCHANGED <<managerVars, market>>

\* self.client.run(...) raises (no connection, authentication refused, no
\* library client): `except Exception` sets is_running = False.
RunStreamRaises ==
    /\ client.thread = "run"
    /\ client' = [client EXCEPT !.thread = "ended", !.connected = FALSE,
                                !.is_running = FALSE, !.cause = "run_raised"]
    /\ UNCHANGED <<managerVars, market>>

\* The stream thread of the direct client ends: the coroutine returns or
\* its outer `except Exception` has printed the exception.
StreamEnded(cause) ==
    [client EXCEPT !.thread = "ended", !.connected = FALSE, !.messages = << >>,
                   !.entered = FALSE, !.cause = cause]

\* websockets.connect(...): the connection is there, or it fails.
StreamConnect ==
    /\ client.thread = "connect"
    /\ \/ client' = [client EXCEPT !.thread = "welcome", !.connected = TRUE]
       \/ client' = StreamEnded("connect_failed")
    /\ UNCHANGED <<managerVars, market>>

\* The server closes the connection while the thread waits in a recv() of
\* the handshake.
StreamClosedInHandshake ==
    /\ client.thread \in {"welcome", "auth_response", "sub_response"}
    /\ client' = StreamEnded("closed")
    /\ UNCHANGED <<managerVars, market>>

\* welcome_msg = await websocket.recv().
StreamWelcome ==
    /\ client.thread = "welcome"
    /\ client' = [client EXCEPT !.thread = "auth",
                                !.log = Append(@, Event("recv_welcome"))]
    /\ UNCHANGED <<managerVars, market>>

\* await websocket.send(json.dumps(auth_msg)).
StreamAuthSend ==
    /\ client.thread = "auth"
    /\ client' = [client EXCEPT !.thread = "auth_response",
                                !.log = Append(@, Event("send_auth"))]
    /\ UNCHANGED <<managerVars, market>>

\* Variant: the status of the auth response is not looked at.
StreamAuthResponseUnchecked(status) ==
    /\ client.thread = "auth_response"
    /\ client' = [client EXCEPT !.thread = "subscribe",
                                !.log = Append(@, Event(status))]
    /\ UNCHANGED <<managerVars, market>>

\* auth_response = await websocket.recv(), and the test of its status.
StreamAuthResponse(status) ==
    /\ client.thread = "auth_response"
    /\ client' =
           IF status = "auth_success"
           THEN [client EXCEPT !.thread = "subscribe",
                               !.log = Append(@, Event(status))]
           ELSE [StreamEnded("auth_failed") EXCEPT
                               !.log = Append(@, Event(status))]
    /\ UNCHANGED <<managerVars, market>>

\* The subscribe message with the channels of subscribed_tickers.
StreamSubscribeSend ==
    /\ client.thread = "subscribe"
    /\ client' = [client EXCEPT
                     !.thread = "sub_response",
                     !.subscriptions =
                         Patterns(client.aggregation, client.subscribed_tickers),
                     !.log = Append(@, Event("send_subscribe"))]
    /\ UNCHANGED <<managerVars, market>>

\* sub_response = await websocket.recv().
StreamSubResponse ==
    /\ client.thread = "sub_response"
    /\ client' = [client EXCEPT !.thread = "loop",
                                !.log = Append(@, Event("recv_subscribed"))]
    /\ UNCHANGED <<managerVars, market>>

\* `while self.is_running:`.
StreamLoop ==
    /\ client.thread = "loop"
    /\ client' = IF client.is_running
                 THEN [client EXCEPT !.thread = "recv", !.entered = TRUE]
                 ELSE StreamEnded("stopped")
    /\ UNCHANGED <<managerVars, market>>

\* asyncio.wait_for(websocket.recv(), timeout=1.0) gives a message.
StreamRecv(data) ==
    /\ client.thread = "recv"
    /\ client.received < MaxBatches
    /\ client' = [client EXCEPT !.thread = "items", !.messages = data,
                                !.received = @ + 1]
    /\ UNCHANGED <<managerVars, market>>

\* `except asyncio.TimeoutError: continue`.
StreamRecvTimeout ==
    /\ client.thread = "recv"
    /\ client' = [client EXCEPT !.thread = "loop", !.entered = FALSE]
    /\ UNCHANGED <<managerVars, market>>

\* `except websockets.exceptions.ConnectionClosed: break`.
StreamRecvClosed ==
    /\ client.thread = "recv"
    /\ client' = StreamEnded("closed")
    /\ UNCHANGED <<managerVars, market>>

\* One turn of `for item in data:`: the callback is called for an item of
\* type AM or A; after the last item the loop goes to its test again.
StreamItem ==
    /\ client.thread = "items"
    /\ client' =
           IF client.messages = << >>
           THEN [client EXCEPT !.thread = "loop", !.entered = FALSE]
           ELSE IF Head(client.messages).ev \in {"AM", "A"}
           THEN [client EXCEPT
                    !.thread = "callback",
                    !.log = Append(@, [e |-> "callback",
                                       ev |-> Head(client.messages).ev,
                                       entered |-> client.entered])]
           ELSE [client EXCEPT !.messages = Tail(@)]
    /\ UNCHANGED <<managerVars, market>>

\* self.message_callback(parsed) returns.
StreamCallbackReturn ==
    /\ client.thread = "callback"
    /\ client' = [client EXCEPT !.thread = "items", !.messages = Tail(@)]
    /\ UNCHANGED <<managerVars, market>>

\* self.message_callback(parsed) raises: the exception leaves the loop.
StreamCallbackRaised ==
    /\ client.thread = "callback"
    /\ client' = StreamEnded("callback_raised")
    /\ UNCHANGED <<managerVars, market>>

\* The steps of a stream thread.
ThreadStep ==
    \/ OrphanEnds
    \/ RunStreamHandle
    \/ RunStreamReturns
    \/ RunStreamRaises
    \/ StreamConnect
    \/ StreamClosedInHandshake
    \/ StreamWelcome
    \/ StreamAuthSend
    \/ \E status \in {"auth_success", "auth_failed"} : StreamAuthResponse(status)
    \/ StreamSubscribeSend
    \/ StreamSubResponse
    \/ StreamLoop
    \/ \E data \in WireLists : StreamRecv(data)
    \/ StreamRecvTimeout
    \/ StreamRecvClosed
    \/ StreamItem
    \/ StreamCallbackReturn
    \/ StreamCallbackRaised

NextClient ==
    \/ \E kind \in ClientKinds, aggregation \in Aggregations :
           ClientInit(kind, aggregation)
    \/ \E tickers \in TickerLists : subscribe(tickers)
    \/ start
    \/ stop
    \/ stop_join
    \/ OrphanEnds
    \/ RunStreamHandle
    \/ RunStreamReturns
    \/ RunStreamRaises
    \/ StreamConnect
    \/ StreamClosedInHandshake
    \/ StreamWelcome
    \/ StreamAuthSend
    \/ \E status \in {"auth_success", "auth_failed"} : StreamAuthResponse(status)
    \/ StreamSubscribeSend
    \/ StreamSubResponse
    \/ StreamLoop
    \/ \E data \in WireLists : StreamRecv(data)
    \/ StreamRecvTimeout
    \/ StreamRecvClosed
    \/ StreamItem
    \/ StreamCallbackReturn
    \/ StreamCallbackRaised

SpecClient == Init /\ [][NextClient]_vars

\* The stream threads get to run; nobody has to call start() or stop().
SpecClientLive == SpecClient /\ WF_vars(ThreadStep)

(***************************************************************************)
(* Properties of the life of a feed client.                                *)
(***************************************************************************)
\* C34 (as claimed): a feed client has at most one stream thread that runs;
\* no step taken while is_running is true starts a thread; no step taken
\* on a StockWebSocketClient that is not running and has no subscribed
\* ticker starts a thread or sets is_running; and stop() on a client that
\* is not running changes nothing.
C34_OneStreamThread ==
    /\ [](AliveThreads <= 1)
    /\ [][ client.is_running =>
               /\ client'.starts = client.starts
               /\ client'.orphans <= client.orphans ]_vars
    /\ [][ ( /\ client.kind = "stock"
             /\ ~client.is_running
             /\ client.subscribed_tickers = << >>
             /\ client'.subscribed_tickers = << >> ) =>
               /\ client'.starts = client.starts
               /\ ~client'.is_running ]_vars
    /\ [][ (client'.last = "stop_ignored" /\ client.last # "stop_ignored") =>
               client' = [client EXCEPT !.last = "stop_ignored"] ]_vars

\* C35 (as claimed): when the stream thread of a client has ended,
\* is_running becomes false at some time, whether or not stop() is called.
C35_RunningFollowsThread ==
    [](client.thread = "ended" => <>(~client.is_running))

\* C36 (as claimed): while the stream of a StockWebSocketClient runs, the
\* library client is subscribed to exactly the channel patterns of
\* subscribed_tickers.
C36_SubscriptionsAreTickers ==
    (client.kind = "stock" /\ client.is_running /\ ThreadAlive) =>
        client.subscriptions =
            Patterns(client.aggregation, client.subscribed_tickers)

\* C37: in what the stream thread of the direct client does, the auth
\* message is sent after the welcome message was received, the subscribe
\* message after an auth response with status auth_success, and the
\* callback is called after the subscription response was received, for an
\* item of type AM or A, in a turn of the loop entered with is_running true.
C37_HandshakeOrder ==
    LET log == client.log
        Earlier(i, e) == \E j \in 1..(i - 1) : log[j].e = e
    IN  \A i \in 1..Len(log) :
            /\ log[i].e = "send_auth" => Earlier(i, "recv_welcome")
            /\ log[i].e = "send_subscribe" =>
                   /\ Earlier(i, "auth_success")
                   /\ ~Earlier(i, "auth_failed")
            /\ log[i].e = "callback" =>
                   /\ Earlier(i, "recv_subscribed")
                   /\ log[i].ev \in {"AM", "A"}
                   /\ log[i].entered

\* The callback runs for a second bar that came behind a status item, and
\* stop() has set is_running to false since the turn of the loop began.
C37_Witness ==
    /\ client.kind = "direct"
    /\ client.thread = "callback"
    /\ ~client.is_running
    /\ Len(client.messages) = 1
    /\ client.log[Len(client.log)] = [e |-> "callback", ev |-> "A", entered |-> TRUE]

====
